---- MODULE Spec2Model ----
(***************************************************************************)
(* Verification model of the PolyVisor verifiable-metric pipeline.        *)
(*                                                                         *)
(*   zkproof/src/lib.rs        ZKProofService (proof cache, validation)    *)
(*   zkproof/src/verifier.rs   ZKVerifier (verification cache)             *)
(*   zkproof/src/circuits.rs   NetworkMetricCircuit, CircuitManager        *)
(*   backend/.../zkproof_service.rs  asynchronous proof jobs               *)
(*   backend/.../health_service.rs   network health score                  *)
(*   backend/.../contributor_service.rs  contributor cache                 *)
(*   contracts/analytics/lib.rs      the Analytics ink! contract           *)
(*                                                                         *)
(* Every component has its own specification (SpecProof, SpecCleanup,      *)
(* SpecKeys, SpecValidate, SpecBackend, SpecCancel, SpecVerifier,          *)
(* SpecContract, SpecReputation, SpecQuality, SpecProofIds, SpecView,      *)
(* SpecFilter, SpecFreshness, SpecHealth, SpecStatus, SpecCatalog,         *)
(* SpecConstraints, SpecComplexity, SpecContributors); the variables of    *)
(* the other components stay at their initial value.                       *)
(*                                                                         *)
(* Numbers are kept below 2^31.  Where a whole SHA-256 digest is a cache   *)
(* key (hex::encode of the digest) it is modelled as a collision-free      *)
(* digest and represented by the byte string that was fed to the hasher,   *)
(* so two keys are equal exactly when the concatenated input bytes are     *)
(* equal.  Where the digest is cut to 32 bits (calculate_circuit_id) it    *)
(* is computed, since the cut is not collision-free.                       *)
(***************************************************************************)
EXTENDS Integers, Sequences, FiniteSets, TLC

VARIABLES
    \* zkproof/src/lib.rs : ZKProofService
    proof_cache,        \* HashMap<String, ZKProof>: cache key -> proof
    now,                \* chrono::Utc::now().timestamp()
    gen_call,           \* the generate_metric_proof call that awaits the prover, if any
    gen_out,            \* what the last generate_metric_proof call returned
    returned,           \* history: submission -> proof returned since the last cleanup
    gen_calls,          \* number of calls made (bounded)
    \* SubmissionValidator, checked on its own
    val_in,             \* the submission handed to validate_submission
    val_out,            \* its result ("none" before the call)
    \* backend/src/services/zkproof_service.rs : ZKProofService
    pending_maps,       \* service instance -> its pending_proofs map
    gen_proof_calls,    \* generate_proof calls that stored their response and have yet to spawn
    tasks,              \* proof id -> state of the spawned background task
    next_id,            \* next fresh proof id (uuid)
    next_inst,          \* next fresh service instance
    api_out,            \* what the last API call returned
    \* zkproof/src/verifier.rs : ZKVerifier
    verification_cache, \* HashMap<String, bool>
    ver_out,            \* the last verify_proof call and its result
    ver_seen,           \* history: call arguments -> result since the last clear_cache
    ver_calls,          \* number of calls made (bounded)
    \* contracts/analytics/lib.rs : Analytics
    metrics,            \* Mapping<MetricType, MetricValue>
    proofs,             \* Mapping<u64, ZKProof>
    privacy_levels,     \* Mapping<AccountId, PrivacyLevel>
    trusted_nodes,      \* Vec<AccountId>
    contributors,       \* Mapping<AccountId, ContributorInfo>
    block_timestamp,    \* env().block_timestamp()
    msg_out,            \* the last contract message and its result
    accepted,           \* history: contributor -> quality scores of accepted submissions
    last_accepted,      \* history: metric type -> the last accepted submission
    level_log,          \* history: caller -> the levels it has set, oldest first
    \* Analytics::apply_privacy_filter, checked on its own
    filter_metric,      \* the stored MetricValue
    filter_views,       \* the views derived from it: each the filter of the one before
    \* backend/src/services/health_service.rs : HealthService
    health_cache,       \* health_cache.overall_health: Option<(HealthResponse, Instant)>
    health_calls,       \* the get_network_health calls under way, in the order they started, with their position
    instant,            \* tokio::time::Instant::now(), in seconds
    health_out,         \* the last get_network_health call and the HealthResponse it returned
    \* the status match and generate_health_warnings, checked on their own
    status_in,          \* the overall score, a u8
    status_out,         \* the status and the warnings for it
    \* zkproof/src/circuits.rs : CircuitManager
    manager,            \* circuits and type_mapping
    select_out,         \* the last select_optimal_circuit call and its result
    \* NetworkMetricCircuit::verify_constraints, checked on its own
    vc_in,              \* the circuit and the arguments of the call
    vc_out,             \* its result
    \* ZKProofService::cleanup_expired_cache, with a wall clock that can be set back
    cleanup_out,        \* the last cleanup_expired_cache call and what it left
    \* Analytics::calculate_data_freshness, checked on its own
    fresh_in,           \* the metrics mapping and the block timestamp of the call
    fresh_out,          \* its result
    \* NetworkMetricCircuit::estimate_complexity, checked on its own
    complexity_in,      \* the circuit and the arguments of the call
    complexity_out,     \* the CircuitComplexity it returns
    \* backend/src/services/contributor_service.rs : ContributorService
    contributor_cache,  \* RwLock<HashMap<String, ContributorInfo>>
    svc_calls           \* the calls made, in the order they started, with their position

proofVars == <<proof_cache, now, gen_call, gen_out, returned, gen_calls>>
validateVars == <<val_in, val_out>>
backendVars == <<pending_maps, gen_proof_calls, tasks, next_id, next_inst, api_out>>
verifierVars == <<verification_cache, ver_out, ver_seen, ver_calls>>
contractVars == <<metrics, proofs, privacy_levels, trusted_nodes, contributors,
                  block_timestamp, msg_out, accepted, last_accepted, level_log>>
filterVars == <<filter_metric, filter_views>>
statusVars == <<status_in, status_out>>
healthVars == <<health_cache, health_calls, instant, health_out, statusVars>>
catalogVars == <<manager, select_out>>
constraintVars == <<vc_in, vc_out>>
\* the components above and the functions checked on their own
serviceVars == <<proofVars, validateVars, backendVars, verifierVars, contractVars>>
pureVars == <<filterVars, healthVars, catalogVars, constraintVars>>
\* the history of calls checked in specifications of their own
freshnessVars == <<fresh_in, fresh_out>>
complexityVars == <<complexity_in, complexity_out>>
\* the functions checked on their own
funVars == <<freshnessVars, complexityVars>>
contributorVars == <<contributor_cache, svc_calls>>
auxVars == <<cleanup_out, funVars, contributorVars>>
vars == <<serviceVars, pureVars, auxVars>>

----------------------------------------------------------------------------
(* Generic helpers *)

EmptyMap == <<>>

\* Option values are <<>> for None and <<x>> for Some(x)
None == <<>>
Some(x) == <<x>>

\* the value of a "last call" variable before any call
NoCall == [op |-> "none"]

RECURSIVE SeqSum(_)
SeqSum(s) == IF s = <<>> THEN 0 ELSE Head(s) + SeqSum(Tail(s))

RECURSIVE Flatten(_)
Flatten(ss) == IF ss = <<>> THEN <<>> ELSE Head(ss) \o Flatten(Tail(ss))

\* all sequences over S of length lo..hi
SeqsOf(S, lo, hi) == UNION { [1..n -> S] : n \in lo..hi }

\* s with the entry for key k set to v
MapPut(m, k, v) == [x \in (DOMAIN m) \cup {k} |-> IF x = k THEN v ELSE m[x]]

----------------------------------------------------------------------------
(* Bounds of the model *)

MaxTime == 2    \* the clock runs 0..MaxTime
MaxElapsed == 1    \* a proof generation reports 0..MaxElapsed ms
MaxGenCalls == 3    \* generate_metric_proof calls per behaviour

----------------------------------------------------------------------------
(* Byte encodings *)

\* u128::to_be_bytes: 16 bytes, most significant first (values < 2^31, so
\* the twelve high bytes are zero)
U128Bytes(n) == [i \in 1..16 |-> IF i <= 12 THEN 0 ELSE (n \div (256 ^ (16 - i))) % 256]

\* usize::to_be_bytes on a 64-bit target
UsizeBytes(n) == [i \in 1..8 |-> IF i <= 4 THEN 0 ELSE (n \div (256 ^ (8 - i))) % 256]

\* u8::to_be_bytes
U8Bytes(n) == <<n>>

\* the idealised digest: SHA-256 + hex::encode, represented by its preimage
Sha256Hex(bytes) == bytes

\* "bt" and "tx" as UTF-8
StrBt == <<98, 116>>
StrTx == <<116, 120>>
\* source ids "v1" and "f2"
StrV1 == <<118, 49>>
StrF2 == <<102, 50>>

\* b"mock_metric_proof"
MockMetricProof == <<109, 111, 99, 107, 95, 109, 101, 116, 114, 105, 99, 95,
                     112, 114, 111, 111, 102>>

----------------------------------------------------------------------------
(* SHA-256 (the sha2 crate), computed where a part of the digest is used *)

\* u32 values are kept as <<high half, low half>>, each half in 0..65535.
\* An operator that uses an argument more than once takes its value from a
\* one-element set, so that the argument is evaluated once.

\* the element of a one-element set
The(S) == CHOOSE r \in S : TRUE

\* u32::from_be_bytes
U32FromBeBytes(bytes) ==
    The({ <<b[1] * 256 + b[2], b[3] * 256 + b[4]>> : b \in {bytes} })

\* u32::to_be_bytes
U32ToBeBytes(word) ==
    The({ <<x[1] \div 256, x[1] % 256, x[2] \div 256, x[2] % 256>> : x \in {word} })

\* bitwise exclusive or and bitwise and of two numbers below 2^n
RECURSIVE BitXor(_, _, _)
BitXor(a, b, n) ==
    IF n = 0 THEN 0 ELSE ((a + b) % 2) + 2 * BitXor(a \div 2, b \div 2, n - 1)

RECURSIVE BitAnd(_, _, _)
BitAnd(a, b, n) ==
    IF n = 0 THEN 0 ELSE ((a % 2) * (b % 2)) + 2 * BitAnd(a \div 2, b \div 2, n - 1)

\* u32 ^, &, ! and wrapping_add
U32Xor(word1, word2) ==
    The({ <<BitXor(x[1], y[1], 16), BitXor(x[2], y[2], 16)>> : x \in {word1}, y \in {word2} })

U32And(word1, word2) ==
    The({ <<BitAnd(x[1], y[1], 16), BitAnd(x[2], y[2], 16)>> : x \in {word1}, y \in {word2} })

U32Not(word) ==
    The({ <<65535 - x[1], 65535 - x[2]>> : x \in {word} })

U32Add(word1, word2) ==
    The({ <<(x[1] + y[1] + (x[2] + y[2]) \div 65536) % 65536, (x[2] + y[2]) % 65536>> :
             x \in {word1}, y \in {word2} })

\* u32::rotate_right and >> by n bits, 0 < n < 32 (n < 16 for the shift)
U32RotR(word, n) ==
    The({ IF n % 16 = 0 THEN x
          ELSE <<x[1] \div (2 ^ (n % 16)) + (x[2] % (2 ^ (n % 16))) * (2 ^ (16 - (n % 16))),
                 x[2] \div (2 ^ (n % 16)) + (x[1] % (2 ^ (n % 16))) * (2 ^ (16 - (n % 16)))>> :
             x \in {IF n >= 16 THEN The({ <<y[2], y[1]>> : y \in {word} }) ELSE word} })

U32ShR(word, n) ==
    The({ <<x[1] \div (2 ^ n), x[2] \div (2 ^ n) + (x[1] % (2 ^ n)) * (2 ^ (16 - n))>> :
             x \in {word} })

\* the round constants and the initial hash value of SHA-256 (FIPS 180-4)
Sha256K ==
    << <<17034, 12184>>, <<28983, 17553>>, <<46528, 64463>>, <<59829, 56229>>,
       <<14678, 49755>>, <<23025, 4593>>, <<37439, 33444>>, <<43804, 24277>>,
       <<55303, 43672>>, <<4739, 23297>>, <<9265, 34238>>, <<21772, 32195>>,
       <<29374, 23924>>, <<32990, 45566>>, <<39900, 1703>>, <<49563, 61812>>,
       <<58523, 27073>>, <<61374, 18310>>, <<4033, 40390>>, <<9228, 41420>>,
       <<11753, 11375>>, <<19060, 33962>>, <<23728, 43484>>, <<30457, 35034>>,
       <<38974, 20818>>, <<43057, 50797>>, <<45059, 10184>>, <<48985, 32711>>,
       <<50912, 3059>>, <<54695, 37191>>, <<1738, 25425>>, <<5161, 10599>>,
       <<10167, 2693>>, <<11803, 8504>>, <<19756, 28156>>, <<21304, 3347>>,
       <<25866, 29524>>, <<30314, 2747>>, <<33218, 51502>>, <<37490, 11397>>,
       <<41663, 59553>>, <<43034, 26187>>, <<49739, 35696>>, <<51052, 20899>>,
       <<53650, 59417>>, <<54937, 1572>>, <<62478, 13701>>, <<4202, 41072>>,
       <<6564, 49430>>, <<7735, 27656>>, <<10056, 30540>>, <<13488, 48309>>,
       <<14620, 3251>>, <<20184, 43594>>, <<23452, 51791>>, <<26670, 28659>>,
       <<29839, 33518>>, <<30885, 25455>>, <<33992, 30740>>, <<36039, 520>>,
       <<37054, 65530>>, <<42064, 27883>>, <<48889, 41975>>, <<50801, 30962>> >>

Sha256H0 ==
    << <<27145, 58983>>, <<47975, 44677>>, <<15470, 62322>>, <<42319, 62778>>,
       <<20750, 21119>>, <<39685, 26764>>, <<8067, 55723>>, <<23520, 52505>> >>

\* the padded message: the bytes, 0x80, zero bytes up to 56 modulo 64, and
\* the length in bits as eight big-endian bytes (messages below 2^28 bytes)
Sha256Pad(bytes) ==
    The({ m \o <<128>> \o [i \in 1..((119 - (Len(m) % 64)) % 64) |-> 0]
            \o [i \in 1..8 |-> IF i <= 4 THEN 0 ELSE ((8 * Len(m)) \div (256 ^ (8 - i))) % 256] :
             m \in {bytes} })

\* the sixteen big-endian words of the block that starts after offset bytes
Sha256Block(padded, offset) ==
    [i \in 1..16 |-> <<padded[offset + 4 * i - 3] * 256 + padded[offset + 4 * i - 2],
                       padded[offset + 4 * i - 1] * 256 + padded[offset + 4 * i]>>]

\* the functions sigma0, sigma1, Sigma0, Sigma1, Ch and Maj
Sha256SmallSigma0(word) ==
    The({ U32Xor(U32Xor(U32RotR(x, 7), U32RotR(x, 18)), U32ShR(x, 3)) : x \in {word} })

Sha256SmallSigma1(word) ==
    The({ U32Xor(U32Xor(U32RotR(x, 17), U32RotR(x, 19)), U32ShR(x, 10)) : x \in {word} })

Sha256BigSigma0(word) ==
    The({ U32Xor(U32Xor(U32RotR(x, 2), U32RotR(x, 13)), U32RotR(x, 22)) : x \in {word} })

Sha256BigSigma1(word) ==
    The({ U32Xor(U32Xor(U32RotR(x, 6), U32RotR(x, 11)), U32RotR(x, 25)) : x \in {word} })

Sha256Ch(word1, word2, word3) ==
    The({ U32Xor(U32And(x, y), U32And(U32Not(x), z)) :
             x \in {word1}, y \in {word2}, z \in {word3} })

Sha256Maj(word1, word2, word3) ==
    The({ U32Xor(U32Xor(U32And(x, y), U32And(x, z)), U32And(y, z)) :
             x \in {word1}, y \in {word2}, z \in {word3} })

\* the message schedule: words, which holds the first lo - 1 words, grown
\* to hi words (the range is halved to keep the recursion shallow)
RECURSIVE Sha256Schedule(_, _, _)
Sha256Schedule(words, lo, hi) ==
    IF lo = hi
    THEN The({ Append(w, U32Add(U32Add(w[lo - 16], Sha256SmallSigma0(w[lo - 15])),
                                U32Add(w[lo - 7], Sha256SmallSigma1(w[lo - 2])))) :
                  w \in {words} })
    ELSE The({ Sha256Schedule(w, (lo + hi) \div 2 + 1, hi) :
                  w \in { Sha256Schedule(words, lo, (lo + hi) \div 2) } })

\* one round of the compression function on the working variables a..h
Sha256Round(vars8, wi, ki) ==
    The({ <<U32Add(t1, t2), v[1], v[2], v[3], U32Add(v[4], t1), v[5], v[6], v[7]>> :
             v \in {vars8},
             t1 \in { U32Add(U32Add(U32Add(vars8[8], Sha256BigSigma1(vars8[5])),
                                    U32Add(Sha256Ch(vars8[5], vars8[6], vars8[7]), ki)), wi) },
             t2 \in { U32Add(Sha256BigSigma0(vars8[1]), Sha256Maj(vars8[1], vars8[2], vars8[3])) } })

\* rounds lo..hi on the working variables, with the schedule w (the range
\* is halved to keep the recursion shallow)
RECURSIVE Sha256Rounds(_, _, _, _)
Sha256Rounds(vars8, w, lo, hi) ==
    IF lo = hi THEN Sha256Round(vars8, w[lo], Sha256K[lo])
    ELSE The({ Sha256Rounds(v, w, (lo + hi) \div 2 + 1, hi) :
                  v \in { Sha256Rounds(vars8, w, lo, (lo + hi) \div 2) } })

\* the hash value after the blocks from offset on
RECURSIVE Sha256Blocks(_, _, _)
Sha256Blocks(hash, padded, offset) ==
    IF offset >= Len(padded) THEN hash
    ELSE The({ Sha256Blocks([j \in 1..8 |-> U32Add(hash[j], v[j])], padded, offset + 64) :
                  v \in { The({ Sha256Rounds(hash, w, 1, 64) :
                                   w \in { Sha256Schedule(Sha256Block(padded, offset), 17, 64) } }) } })

\* Sha256::update on the bytes followed by finalize: the thirty-two bytes
\* of the digest
Sha256Digest(bytes) ==
    The({ Flatten([j \in 1..8 |-> U32ToBeBytes(h[j])]) :
             h \in { The({ Sha256Blocks(Sha256H0, padded, 0) :
                              padded \in { Sha256Pad(bytes) } }) } })

----------------------------------------------------------------------------
(* zkproof/src/circuits.rs *)

\* NetworkMetricCircuit::new
NewCircuit(id, dp, src) ==
    [circuit_id |-> id, circuit_type |-> "NetworkMetric",
     max_data_points |-> dp, max_data_sources |-> src]

\* a.abs_diff(b) on unsigned integers
AbsDiff(a, b) == IF a >= b THEN a - b ELSE b - a

\* a check with a tolerance of 10% instead of 5%
verify_constraints_wide(circuit, private_data, data_sources, public_metric, quality_score) ==
    IF Len(private_data) > circuit.max_data_points THEN FALSE
    ELSE IF Len(data_sources) > circuit.max_data_sources THEN FALSE
    ELSE IF Len(data_sources) < 2 THEN FALSE
    ELSE IF /\ private_data # <<>>
            /\ AbsDiff(SeqSum(private_data) \div Len(private_data), public_metric)
                 > public_metric \div 10
         THEN FALSE
    ELSE IF quality_score > 100 THEN FALSE
    ELSE IF quality_score > (SeqSum(data_sources) \div Len(data_sources)) + 10 THEN FALSE
    ELSE TRUE

\* a check without the range check of the quality score
verify_constraints_norange(circuit, private_data, data_sources, public_metric, quality_score) ==
    IF Len(private_data) > circuit.max_data_points THEN FALSE
    ELSE IF Len(data_sources) > circuit.max_data_sources THEN FALSE
    ELSE IF Len(data_sources) < 2 THEN FALSE
    ELSE IF /\ private_data # <<>>
            /\ AbsDiff(SeqSum(private_data) \div Len(private_data), public_metric)
                 > public_metric \div 20
         THEN FALSE
    ELSE IF quality_score > (SeqSum(data_sources) \div Len(data_sources)) + 10 THEN FALSE
    ELSE TRUE

\* NetworkMetricCircuit::verify_constraints; data_sources holds the
\* reliability scores of the sources
verify_constraints(circuit, private_data, data_sources, public_metric, quality_score) ==
    IF Len(private_data) > circuit.max_data_points THEN FALSE
    ELSE IF Len(data_sources) > circuit.max_data_sources THEN FALSE
    ELSE IF Len(data_sources) < 2 THEN FALSE
    ELSE IF /\ private_data # <<>>
            /\ AbsDiff(SeqSum(private_data) \div Len(private_data), public_metric)
                 > public_metric \div 20
         THEN FALSE
    ELSE IF quality_score > 100 THEN FALSE
    ELSE IF quality_score > (SeqSum(data_sources) \div Len(data_sources)) + 10 THEN FALSE
    ELSE TRUE

\* NetworkMetricCircuit::estimate_constraint_count
estimate_constraint_count(data_points, sources) ==
    50 + data_points * 5 + sources * 3 + 20

\* NetworkMetricCircuit::estimate_witness_count
estimate_witness_count(data_points, sources) ==
    data_points + sources * 2 + (data_points + sources + 10)

\* NetworkMetricCircuit::estimate_complexity
estimate_complexity(circuit, data_points, sources) ==
    LET constraint_count == estimate_constraint_count(data_points, sources)
        witness_count    == estimate_witness_count(data_points, sources)
    IN  [constraint_count |-> constraint_count,
         witness_count |-> witness_count,
         estimated_generation_time_ms |-> constraint_count \div 1000 + witness_count \div 500,
         estimated_verification_time_ms |-> constraint_count \div 5000 + 10,
         memory_usage_mb |-> (constraint_count + witness_count) \div 10000]

\* CircuitManager: circuits is the HashMap id -> circuit, type_mapping the
\* Vec of ids registered for CircuitType::NetworkMetric, in registration order
EmptyManager == [circuits |-> EmptyMap, type_mapping |-> <<>>]

\* CircuitManager::register_circuit
register_circuit(mgr, circuit) ==
    [circuits |-> MapPut(mgr.circuits, circuit.circuit_id, circuit),
     type_mapping |-> Append(mgr.type_mapping, circuit.circuit_id)]

\* CircuitManager::new with register_default_circuits
DefaultManager ==
    register_circuit(register_circuit(register_circuit(EmptyManager,
        NewCircuit(1, 10, 5)), NewCircuit(2, 50, 20)), NewCircuit(3, 200, 100))

\* CircuitManager::get_circuits_by_type for NetworkMetric
get_circuits_by_type(mgr) ==
    [i \in 1..Len(mgr.type_mapping) |-> mgr.circuits[mgr.type_mapping[i]]]

\* a selection that keeps the last of several equally cheap circuits
select_optimal_circuit_last(mgr, data_points, sources) ==
    LET candidates == get_circuits_by_type(mgr)
        capable == { i \in 1..Len(candidates) :
                        /\ candidates[i].max_data_points >= data_points
                        /\ candidates[i].max_data_sources >= sources }
        cost(i) == estimate_complexity(candidates[i], data_points, sources).estimated_generation_time_ms
        best == { i \in capable : \A j \in capable : cost(i) <= cost(j) }
    IN  IF capable = {} THEN <<>>
        ELSE <<candidates[CHOOSE i \in best : \A j \in best : i >= j]>>

\* CircuitManager::select_optimal_circuit: filter, then Iterator::min_by_key,
\* which returns the first of several equally small elements.  The value is
\* an Option: <<>> for None, <<circuit>> for Some(circuit)
select_optimal_circuit(mgr, data_points, sources) ==
    LET candidates == get_circuits_by_type(mgr)
        capable == { i \in 1..Len(candidates) :
                        /\ candidates[i].max_data_points >= data_points
                        /\ candidates[i].max_data_sources >= sources }
        cost(i) == estimate_complexity(candidates[i], data_points, sources).estimated_generation_time_ms
        best == { i \in capable : \A j \in capable : cost(i) <= cost(j) }
    IN  IF capable = {} THEN <<>>
        ELSE <<candidates[CHOOSE i \in best : \A j \in best : i <= j]>>

----------------------------------------------------------------------------
(* Inputs of the proof pipeline *)

\* DataSource values
SrcV1 == [source_type |-> "ValidatorNode", source_id |-> StrV1, timestamp |-> 0,
           reliability_score |-> 95]
SrcF2 == [source_type |-> "FullNode", source_id |-> StrF2, timestamp |-> 1,
           reliability_score |-> 87]
Src100 == [source_type |-> "LightNode", source_id |-> StrV1, timestamp |-> 0,
           reliability_score |-> 100]
Src101 == [source_type |-> "ExternalOracle", source_id |-> StrF2, timestamp |-> 0,
           reliability_score |-> 101]

Readings == <<6000, 6100, 5900, 6200>>

\* MetricSubmission values offered to the proof service: valid ones whose
\* aggregate is the mean (6050) or off by more than 5% (6500), and invalid ones
PoolSubmissions ==
    [metric_type : {StrBt},
     private_data : {Readings},
     data_sources : {<<SrcV1, SrcF2>>, <<SrcF2, SrcV1>>},
     public_metric : {6050, 6500},
     quality_score : {92, 101},
     time_window_hours : {1}]

\* MetricSubmission values offered to validate_submission alone
ValSubmissions ==
    [metric_type : {StrBt},
     private_data : {<<>>, <<6000>>, Readings},
     data_sources : SeqsOf({SrcV1, SrcF2, Src100, Src101}, 0, 3),
     public_metric : {6050},
     quality_score : {0, 92, 100, 101, 255},
     time_window_hours : {0, 1, 24, 25, 255}]

\* DataSource values whose ids and reliabilities give the same bytes when
\* they are written one after the other: "a" 98 "c" 100 and "ab" 99 "" 100
SrcA98 == [source_type |-> "ValidatorNode", source_id |-> <<97>>, timestamp |-> 0,
           reliability_score |-> 98]
SrcC100 == [source_type |-> "FullNode", source_id |-> <<99>>, timestamp |-> 0,
            reliability_score |-> 100]
SrcAb99 == [source_type |-> "ValidatorNode", source_id |-> <<97, 98>>, timestamp |-> 0,
            reliability_score |-> 99]
SrcEmpty100 == [source_type |-> "FullNode", source_id |-> <<>>, timestamp |-> 0,
                reliability_score |-> 100]

\* MetricSubmission values that pass validate_submission and differ in the
\* fields the cache key is made of: in the aggregate, in the metric type and
\* the readings ("bt" with two readings, and "bt" followed by the sixteen
\* bytes of 6000 with the second reading only), and in the sources
KeySubmissions ==
    [metric_type : {StrBt}, private_data : {<<6000, 6100>>},
     data_sources : {<<SrcV1, SrcF2>>}, public_metric : {6050, 6051},
     quality_score : {92}, time_window_hours : {1}]
    \cup
    [metric_type : {StrBt \o U128Bytes(6000)}, private_data : {<<6100>>},
     data_sources : {<<SrcV1, SrcF2>>}, public_metric : {6050},
     quality_score : {92}, time_window_hours : {1}]
    \cup
    [metric_type : {StrTx}, private_data : {<<6000, 6100>>},
     data_sources : {<<SrcA98, SrcC100>>, <<SrcAb99, SrcEmpty100>>},
     public_metric : {6050}, quality_score : {92}, time_window_hours : {1}]

----------------------------------------------------------------------------
(* zkproof/src/lib.rs : ZKProofService *)

MsgEmptyData == "Private data cannot be empty"
MsgFewSources == "At least 2 data sources required"
MsgQuality == "Quality score must be <= 100"
MsgTimeWindow == "Time window must be between 1-24 hours"
MsgReliability == "Source reliability score must be <= 100"

\* a swapped order of the quality and the time-window check
validate_submission_swapped(submission) ==
    IF submission.private_data = <<>> THEN MsgEmptyData
    ELSE IF Len(submission.data_sources) < 2 THEN MsgFewSources
    ELSE IF submission.time_window_hours = 0 \/ submission.time_window_hours > 24
         THEN MsgTimeWindow
    ELSE IF submission.quality_score > 100 THEN MsgQuality
    ELSE IF \E i \in 1..Len(submission.data_sources) :
                submission.data_sources[i].reliability_score > 100
         THEN MsgReliability
    ELSE "Ok"

\* ZKProofService::validate_submission: "Ok" or the message of the error
validate_submission(submission) ==
    IF submission.private_data = <<>> THEN MsgEmptyData
    ELSE IF Len(submission.data_sources) < 2 THEN MsgFewSources
    ELSE IF submission.quality_score > 100 THEN MsgQuality
    ELSE IF submission.time_window_hours = 0 \/ submission.time_window_hours > 24
         THEN MsgTimeWindow
    ELSE IF \E i \in 1..Len(submission.data_sources) :
                submission.data_sources[i].reliability_score > 100
         THEN MsgReliability
    ELSE "Ok"

\* the bytes that calculate_circuit_id feeds the hasher: metric type, number
\* of readings, number of sources, window
CircuitIdBytes(submission) ==
    submission.metric_type
        \o UsizeBytes(Len(submission.private_data))
        \o UsizeBytes(Len(submission.data_sources))
        \o U8Bytes(submission.time_window_hours)

\* the digests of these bytes for the submissions offered to the proof
\* service, computed once and looked up by calculate_circuit_id
CircuitDigests ==
    { <<bytes, Sha256Digest(bytes)>> :
        bytes \in { CircuitIdBytes(s) : s \in PoolSubmissions \cup KeySubmissions } }

\* ZKProofService::calculate_circuit_id: the first four bytes of the SHA-256
\* digest as a big-endian u32
calculate_circuit_id(submission) ==
    The({ U32FromBeBytes(<<hash[1], hash[2], hash[3], hash[4]>>) :
             hash \in { The({ IF \E d \in CircuitDigests : d[1] = bytes
                              THEN (CHOOSE d \in CircuitDigests : d[1] = bytes)[2]
                              ELSE Sha256Digest(bytes) :
                                 bytes \in { CircuitIdBytes(submission) } }) } })

\* ZKProofService::generate_cache_key
generate_cache_key(submission) ==
    Sha256Hex(submission.metric_type
              \o Flatten([i \in 1..Len(submission.private_data) |->
                             U128Bytes(submission.private_data[i])])
              \o U128Bytes(submission.public_metric)
              \o U8Bytes(submission.quality_score)
              \o U8Bytes(submission.time_window_hours)
              \o Flatten([i \in 1..Len(submission.data_sources) |->
                             submission.data_sources[i].source_id
                             \o U8Bytes(submission.data_sources[i].reliability_score)]))

\* a.saturating_sub(b)
SaturatingSub(a, b) == IF a >= b THEN a - b ELSE 0

\* ZKProofService::calculate_data_age
calculate_data_age(data_sources, t) ==
    IF data_sources = <<>> THEN 0
    ELSE SeqSum([i \in 1..Len(data_sources) |-> SaturatingSub(t, data_sources[i].timestamp)])
            \div Len(data_sources)

\* the proving backend awaited by generate_metric_proof: constant proof
\* bytes (prover.rs), wrapped as a ZKProof created at time t, the second
\* the backend reads while it is awaited
prover_generate_proof(private_data, reliabilities, public_metric, quality_score, time_window_hours, circuit_id, t) ==
    [proof_value |-> MockMetricProof,
     public_inputs |-> <<public_metric, quality_score, time_window_hours>>,
     verification_key |-> <<>>,
     circuit_id |-> circuit_id,
     created_at |-> t]

\* ProofMetadata of a call; t is what calculate_data_age reads from the clock
Metadata(submission, generation_time, t) ==
    [circuit_type |-> "NetworkMetric",
     generation_time |-> generation_time,
     data_sources_count |-> Len(submission.data_sources),
     quality_threshold |-> submission.quality_score,
     data_age |-> calculate_data_age(submission.data_sources, t)]

\* generate_metric_proof that never looks into the proof cache
generate_metric_proof_nolookup(cache, submission, t) ==
    LET v == validate_submission(submission)
        circuit_id == calculate_circuit_id(submission)
    IN  IF v # "Ok"
        THEN [result |-> v, proof |-> None, metadata |-> None, circuit_id |-> None]
        ELSE [result |-> "Awaiting", proof |-> None, metadata |-> None,
              circuit_id |-> Some(circuit_id)]

\* ZKProofService::generate_metric_proof from its entry at time t to its
\* return or to the point where it awaits the prover: validation, circuit
\* id and cache lookup.  The value is the call's result ("Awaiting" when it
\* goes on to the prover, with the circuit id it passes), and the proof and
\* metadata it returns (Options, None on an error and while awaiting).
generate_metric_proof(cache, submission, t) ==
    LET v == validate_submission(submission)
        circuit_id == calculate_circuit_id(submission)
        cache_key == generate_cache_key(submission)
    IN  IF v # "Ok"
        THEN [result |-> v, proof |-> None, metadata |-> None, circuit_id |-> None]
        ELSE IF cache_key \in DOMAIN cache
        THEN [result |-> "Ok", proof |-> Some(cache[cache_key]),
              metadata |-> Some(Metadata(submission, 0, t)), circuit_id |-> None]
        ELSE [result |-> "Awaiting", proof |-> None, metadata |-> None,
              circuit_id |-> Some(circuit_id)]

\* ZKProofService::generate_metric_proof from the prover's answer to its
\* return: the metadata, for which the clock is read again (t), and the
\* insertion into the cache; elapsed is what start_time.elapsed() measures.
\* The value is the call's result, the proof and metadata it returns and
\* the cache it leaves.
generate_metric_proof_resumed(cache, submission, proof, t, elapsed) ==
    [result |-> "Ok", proof |-> Some(proof),
     metadata |-> Some(Metadata(submission, elapsed, t)),
     cache |-> MapPut(cache, generate_cache_key(submission), proof)]

\* ZKProofService::cleanup_expired_cache at time t: HashMap::retain with the
\* u64 subtraction current_time - proof.created_at.  For an entry created
\* after t the subtraction overflows: a build without overflow checks wraps
\* to 2^64 - (created_at - t), which no max_age_seconds of the model reaches,
\* so the entry is dropped; a build with overflow checks panics when retain
\* visits the entry, having dropped any of the expired entries it visited
\* before (the HashMap's iteration order is arbitrary).  The value is the
\* set of outcomes: whether the call completed and the cache it leaves.
cleanup_expired_cache(cache, t, max_age_seconds) ==
    LET ahead == { k \in DOMAIN cache : cache[k].created_at > t }
        expired == { k \in DOMAIN cache :
                        /\ cache[k].created_at <= t
                        /\ ~(t - cache[k].created_at < max_age_seconds) }
        without(dropped) == [k \in (DOMAIN cache) \ dropped |-> cache[k]]
    IN  {[completed |-> TRUE, cache |-> without(expired \cup ahead)]}
        \cup {[completed |-> FALSE, cache |-> without(dropped)] :
                  dropped \in IF ahead = {} THEN {} ELSE SUBSET expired}

----------------------------------------------------------------------------
(* Actions of the proof service *)

\* the history of the answered submissions after a call has returned
Answered(submission, result, proof) ==
    IF result = "Ok"
    THEN MapPut(returned, submission,
                [proof |-> proof[1],
                 count |-> IF submission \in DOMAIN returned
                           THEN returned[submission].count + 1 ELSE 1])
    ELSE returned

\* a call of generate_metric_proof with one of the submissions, up to its
\* return (an error, a cache hit) or to the await of the prover.  The call
\* borrows the service mutably, so none starts while another one awaits.
GenerateMetricProofFrom(submissions) ==
    /\ gen_call = NoCall
    /\ gen_calls < MaxGenCalls
    /\ \E submission \in submissions :
         LET out == generate_metric_proof(proof_cache, submission, now)
         IN  IF out.result = "Awaiting"
             THEN /\ gen_call' = [op |-> "generate_metric_proof", pc |-> "proving",
                                  submission |-> submission,
                                  circuit_id |-> out.circuit_id[1], proof |-> None]
                  /\ UNCHANGED <<gen_out, returned>>
             ELSE /\ gen_out' = [op |-> "generate_metric_proof",
                                 submission |-> submission, result |-> out.result,
                                 proof |-> out.proof, metadata |-> out.metadata]
                  /\ returned' = Answered(submission, out.result, out.proof)
                  /\ UNCHANGED gen_call
    /\ gen_calls' = gen_calls + 1
    /\ UNCHANGED <<proof_cache, now>>

GenerateMetricProof == GenerateMetricProofFrom(PoolSubmissions)

\* the awaited prover builds the proof and stamps it with the second it reads
ProverGenerateProof ==
    /\ gen_call # NoCall
    /\ gen_call.pc = "proving"
    /\ LET submission == gen_call.submission
           proof == prover_generate_proof(
                        submission.private_data,
                        [i \in 1..Len(submission.data_sources) |->
                             submission.data_sources[i].reliability_score],
                        submission.public_metric, submission.quality_score,
                        submission.time_window_hours, gen_call.circuit_id, now)
       IN  gen_call' = [gen_call EXCEPT !.pc = "proved", !.proof = Some(proof)]
    /\ UNCHANGED <<proof_cache, now, gen_out, returned, gen_calls>>

\* generate_metric_proof goes on after the await: metadata, insertion, return
GenerateMetricProofResumed ==
    /\ gen_call # NoCall
    /\ gen_call.pc = "proved"
    /\ \E elapsed \in 0..MaxElapsed :
         LET out == generate_metric_proof_resumed(proof_cache, gen_call.submission,
                                                  gen_call.proof[1], now, elapsed)
         IN  /\ proof_cache' = out.cache
             /\ gen_out' = [op |-> "generate_metric_proof",
                            submission |-> gen_call.submission, result |-> out.result,
                            proof |-> out.proof, metadata |-> out.metadata]
             /\ returned' = Answered(gen_call.submission, out.result, out.proof)
    /\ gen_call' = NoCall
    /\ UNCHANGED <<now, gen_calls>>

\* a call of cleanup_expired_cache; it borrows the service mutably, so it
\* runs while no generate_metric_proof call awaits
CleanupExpiredCache ==
    /\ gen_call = NoCall
    /\ \E max_age_seconds \in 0..(MaxTime + 1) :
         \E out \in cleanup_expired_cache(proof_cache, now, max_age_seconds) :
             proof_cache' = out.cache
    /\ returned' = EmptyMap
    /\ UNCHANGED <<now, gen_call, gen_out, gen_calls>>

\* the wall clock advances
Tick ==
    /\ now < MaxTime
    /\ now' = now + 1
    /\ UNCHANGED <<proof_cache, gen_call, gen_out, returned, gen_calls>>

\* the two submissions of the pool that differ in the order of their sources
CleanupSubmissions ==
    { s \in PoolSubmissions : s.public_metric = 6050 /\ s.quality_score = 92 }

\* a call of generate_metric_proof before a recorded cleanup
GenerateForCleanup == GenerateMetricProofFrom(CleanupSubmissions) /\ UNCHANGED cleanup_out

\* the wall clock advances before a recorded cleanup
TickForCleanup == Tick /\ UNCHANGED cleanup_out

\* the wall clock is set back (chrono::Utc::now reads the system's real-time
\* clock, which an adjustment can move to an earlier second)
ClockSetBack ==
    /\ now > 0
    /\ now' = now - 1
    /\ UNCHANGED <<proof_cache, gen_call, gen_out, returned, gen_calls, cleanup_out>>

\* a call of cleanup_expired_cache, recorded with the cache before and after
CleanupRecorded ==
    /\ gen_call = NoCall
    /\ \E max_age_seconds \in 0..(MaxTime + 1) :
         \E out \in cleanup_expired_cache(proof_cache, now, max_age_seconds) :
             /\ proof_cache' = out.cache
             /\ cleanup_out' = [op |-> "cleanup_expired_cache",
                                current_time |-> now,
                                max_age_seconds |-> max_age_seconds,
                                before |-> proof_cache,
                                completed |-> out.completed,
                                after |-> out.cache]
    /\ returned' = EmptyMap
    /\ UNCHANGED <<now, gen_call, gen_out, gen_calls>>

\* a call of generate_metric_proof with one of these submissions
GenerateForKeys == GenerateMetricProofFrom(KeySubmissions)

\* a call of validate_submission
ValidateSubmission ==
    /\ val_out = "none"
    /\ val_out' = validate_submission(val_in)
    /\ UNCHANGED val_in

----------------------------------------------------------------------------
(* backend/src/services/zkproof_service.rs : ZKProofService *)

MaxProofs == 2      \* generate_proof calls per behaviour; proof ids are 1..MaxProofs

\* ids a caller may pass: the issued ones and 0, a uuid that is never issued
CallerIds == 0..MaxProofs

\* the instance held by the application state
MainService == 0

ProofGenerationStatus == {"Pending", "Processing", "Completed", "Failed", "Expired"}

\* ZKProofData built by process_proof_generation for a proof id
ProofData(proof_id) ==
    [proof |-> <<"zkp_", proof_id, "_proof">>,
     public_inputs |-> <<"public_input_1">>,
     verification_key |-> <<"vk_", proof_id>>,
     algorithm |-> "PLONK"]

\* the ProofGenerationResponse built by generate_proof
NewResponse(proof_id) ==
    [proof_id |-> proof_id, status |-> "Pending", proof_data |-> None]

\* a Clone that shares the pending_proofs map with the original
clone_service_shared(self, fresh) == self

\* Arc::new(self.clone()): impl Clone builds a service around a new, empty
\* pending_proofs map; the value is the instance the clone's map lives in
clone_service(self, fresh) == fresh

\* the update block of process_proof_generation on a pending_proofs map
process_update(pending, proof_id) ==
    IF proof_id \in DOMAIN pending
    THEN [pending EXCEPT ![proof_id] =
              [@ EXCEPT !.status = "Completed", !.proof_data = Some(ProofData(proof_id))]]
    ELSE pending

\* ZKProofService::get_proof_status: the result and the response
get_proof_status(pending, proof_id) ==
    IF proof_id \in DOMAIN pending
    THEN [result |-> "Ok", response |-> Some(pending[proof_id])]
    ELSE [result |-> "NotFound", response |-> None]

\* a cancellation that does not look at the status
cancel_proof_generation_always(pending, proof_id) ==
    [result |-> "Ok",
     pending |-> IF proof_id \in DOMAIN pending
                 THEN [pending EXCEPT ![proof_id].status = "Failed"]
                 ELSE pending]

\* ZKProofService::cancel_proof_generation: the result and the map it leaves
cancel_proof_generation(pending, proof_id) ==
    [result |-> "Ok",
     pending |-> IF /\ proof_id \in DOMAIN pending
                    /\ pending[proof_id].status \in {"Pending", "Processing"}
                 THEN [pending EXCEPT ![proof_id].status = "Failed"]
                 ELSE pending]

\* a call of generate_proof on the main service, up to the end of the block
\* that holds the write lock: the response is built and stored
GenerateProof ==
    /\ next_id <= MaxProofs
    /\ LET proof_id == next_id
           response == NewResponse(proof_id)
       IN  /\ pending_maps' = [pending_maps EXCEPT ![MainService] =
                                   MapPut(@, proof_id, response)]
           /\ gen_proof_calls' = gen_proof_calls \cup {proof_id}
    /\ next_id' = next_id + 1
    /\ UNCHANGED <<tasks, next_inst, api_out>>

\* the call goes on with the lock released: the service is cloned, the
\* background task is spawned on the clone and the response is returned
GenerateProofSpawn ==
    \E proof_id \in gen_proof_calls :
        LET response == NewResponse(proof_id)
            clone == clone_service(MainService, next_inst)
        IN  /\ pending_maps' = MapPut(pending_maps, next_inst, EmptyMap)
            /\ tasks' = MapPut(tasks, proof_id, [service |-> clone, pc |-> "sleeping"])
            /\ api_out' = [op |-> "generate_proof", proof_id |-> proof_id, result |-> "Ok",
                           response |-> Some(response), before |-> None,
                           task_finished |-> FALSE]
            /\ gen_proof_calls' = gen_proof_calls \ {proof_id}
            /\ next_inst' = next_inst + 1
            /\ UNCHANGED next_id

\* process_proof_generation: the sleep of the task ends
TaskWake ==
    \E proof_id \in DOMAIN tasks :
        /\ tasks[proof_id].pc = "sleeping"
        /\ tasks' = [tasks EXCEPT ![proof_id].pc = "updating"]
        /\ UNCHANGED <<pending_maps, gen_proof_calls, next_id, next_inst, api_out>>

\* process_proof_generation: the update under the write lock; the task ends
TaskUpdate ==
    \E proof_id \in DOMAIN tasks :
        /\ tasks[proof_id].pc = "updating"
        /\ pending_maps' = [pending_maps EXCEPT ![tasks[proof_id].service] =
                                process_update(@, proof_id)]
        /\ tasks' = [tasks EXCEPT ![proof_id].pc = "finished"]
        /\ UNCHANGED <<gen_proof_calls, next_id, next_inst, api_out>>

TaskFinished(proof_id) ==
    proof_id \in DOMAIN tasks /\ tasks[proof_id].pc = "finished"

BeforeCall(proof_id) ==
    IF proof_id \in DOMAIN pending_maps[MainService]
    THEN Some(pending_maps[MainService][proof_id]) ELSE None

\* a call of get_proof_status on the main service
GetProofStatus ==
    \E proof_id \in CallerIds :
        LET out == get_proof_status(pending_maps[MainService], proof_id)
        IN  /\ api_out' = [op |-> "get_proof_status", proof_id |-> proof_id,
                           result |-> out.result, response |-> out.response,
                           before |-> BeforeCall(proof_id),
                           task_finished |-> TaskFinished(proof_id)]
            /\ UNCHANGED <<pending_maps, gen_proof_calls, tasks, next_id, next_inst>>

\* a call of cancel_proof_generation on the main service
CancelProofGeneration ==
    \E proof_id \in CallerIds :
        LET out == cancel_proof_generation(pending_maps[MainService], proof_id)
        IN  /\ pending_maps' = [pending_maps EXCEPT ![MainService] = out.pending]
            /\ api_out' = [op |-> "cancel_proof_generation", proof_id |-> proof_id,
                           result |-> out.result, response |-> None,
                           before |-> BeforeCall(proof_id),
                           task_finished |-> TaskFinished(proof_id)]
            /\ UNCHANGED <<gen_proof_calls, tasks, next_id, next_inst>>

\* pending_proofs maps a service can hold, for checking the calls on their own
ResponsesOf(proof_id) ==
    { [proof_id |-> proof_id, status |-> st, proof_data |-> pd] :
        st \in ProofGenerationStatus, pd \in {None, Some(ProofData(proof_id))} }

HeldMaps ==
    UNION { { m \in [ids -> UNION { ResponsesOf(i) : i \in 1..MaxProofs }] :
                \A i \in ids : m[i].proof_id = i } : ids \in SUBSET (1..MaxProofs) }

----------------------------------------------------------------------------
(* zkproof/src/verifier.rs : ZKVerifier *)

MaxVerCalls == 3    \* verify_proof calls per behaviour

\* format!("{:?}", circuit_type) as UTF-8: "NetworkMetrics", "Privacy",
\* "Consensus"
DebugName(circuit_type) ==
    IF circuit_type = "NetworkMetrics"
    THEN <<78, 101, 116, 119, 111, 114, 107, 77, 101, 116, 114, 105, 99, 115>>
    ELSE IF circuit_type = "Privacy"
    THEN <<80, 114, 105, 118, 97, 99, 121>>
    ELSE <<67, 111, 110, 115, 101, 110, 115, 117, 115>>

\* b"mock_privacy_proof"
MockPrivacyProof == <<109, 111, 99, 107, 95, 112, 114, 105, 118, 97, 99, 121, 95,
                      112, 114, 111, 111, 102>>

\* b"mock_consensus_proof"
MockConsensusProof == <<109, 111, 99, 107, 95, 99, 111, 110, 115, 101, 110, 115,
                        117, 115, 95, 112, 114, 111, 111, 102>>

\* ZKVerifier::verify_metric_proof
verify_metric_proof(proof, public, vk) == proof # <<>> /\ proof = MockMetricProof

\* ZKVerifier::verify_privacy_proof
verify_privacy_proof(proof, public, vk) == proof # <<>> /\ proof = MockPrivacyProof

\* ZKVerifier::verify_consensus_proof
verify_consensus_proof(proof, public, vk) == proof # <<>> /\ proof = MockConsensusProof

\* ZKVerifier::generate_cache_key
verifier_cache_key(circuit_type, proof, public_inputs) ==
    Sha256Hex(DebugName(circuit_type)
              \o proof
              \o Flatten([i \in 1..Len(public_inputs) |-> U128Bytes(public_inputs[i])]))

\* the match of verify_proof over the circuit type
dispatch_verify(circuit_type, proof, public_inputs, verification_key) ==
    IF circuit_type = "NetworkMetrics"
    THEN verify_metric_proof(proof, public_inputs, verification_key)
    ELSE IF circuit_type = "Privacy"
    THEN verify_privacy_proof(proof, public_inputs, verification_key)
    ELSE verify_consensus_proof(proof, public_inputs, verification_key)

\* a verify_proof that takes a cached key to mean "verified"
verify_proof_hit_true(cache, circuit_type, proof, public_inputs, verification_key) ==
    LET cache_key == verifier_cache_key(circuit_type, proof, public_inputs)
        is_valid == dispatch_verify(circuit_type, proof, public_inputs, verification_key)
    IN  IF cache_key \in DOMAIN cache
        THEN [result |-> TRUE, cache |-> cache]
        ELSE [result |-> is_valid, cache |-> MapPut(cache, cache_key, is_valid)]

\* ZKVerifier::verify_proof: the boolean returned and the cache it leaves
verify_proof(cache, circuit_type, proof, public_inputs, verification_key) ==
    LET cache_key == verifier_cache_key(circuit_type, proof, public_inputs)
        is_valid == dispatch_verify(circuit_type, proof, public_inputs, verification_key)
    IN  IF cache_key \in DOMAIN cache
        THEN [result |-> cache[cache_key], cache |-> cache]
        ELSE [result |-> is_valid, cache |-> MapPut(cache, cache_key, is_valid)]

\* arguments offered to verify_proof; the last proof is the mock proof
\* followed by the sixteen bytes of the public input 7
VerifyArgs ==
    [circuit_type : {"NetworkMetrics", "Privacy"},
     proof : {MockMetricProof, <<>>, MockMetricProof \o U128Bytes(7)},
     public_inputs : {<<>>, <<7>>},
     verification_key : {<<>>, <<5, 6, 7, 8>>}]

\* a call of ZKVerifier::verify_proof
VerifyProof ==
    /\ ver_calls < MaxVerCalls
    /\ \E a \in VerifyArgs :
         LET out == verify_proof(verification_cache, a.circuit_type, a.proof,
                                 a.public_inputs, a.verification_key)
         IN  /\ verification_cache' = out.cache
             /\ ver_out' = [op |-> "verify_proof", args |-> a, result |-> out.result]
             /\ ver_seen' = MapPut(ver_seen, a,
                                  [result |-> out.result,
                                   count |-> IF a \in DOMAIN ver_seen
                                             THEN ver_seen[a].count + 1 ELSE 1])
    /\ ver_calls' = ver_calls + 1

\* a call of ZKVerifier::clear_cache
ClearCache ==
    /\ verification_cache' = EmptyMap
    /\ ver_seen' = EmptyMap
    /\ UNCHANGED <<ver_out, ver_calls>>

----------------------------------------------------------------------------
(* contracts/analytics/lib.rs : Analytics *)

MaxSubmits == 1     \* accepted submit_metric calls per behaviour, contract specification
MaxScores == 3     \* accepted submit_metric calls per behaviour, reputation specification
MaxBlock == 1     \* block timestamps are 0..MaxBlock
MaxLevels == 1     \* set_privacy_level calls per behaviour

\* AccountId values: the deployer and two nodes
Owner == "owner"
Alice == "alice"
Bob == "bob"
Callers == {Owner, Alice, Bob}

MetricTypes == {"AverageBlockTime", "TransactionVolume"}
PrivacyLevels == {"Maximum", "High", "Medium", "Low", "Minimal"}

\* the elements of a Vec
Range(s) == { s[i] : i \in 1..Len(s) }

\* Analytics::is_trusted_node
is_trusted_node(nodes, node) == node \in Range(nodes)

\* Analytics::verify_proof (the private check used by submit_metric)
contract_verify_proof(proof, metric_type, value) ==
    IF proof.proof_value = <<>> \/ proof.public_inputs = <<>> THEN FALSE
    ELSE IF Len(proof.public_inputs) > 0 /\ proof.public_inputs[1] # value THEN FALSE
    ELSE TRUE

\* an update that overwrites the reputation instead of adding to it
update_contributor_info_overwrite(contribs, contributor, quality_score, ts) ==
    IF contributor \in DOMAIN contribs
    THEN LET info == contribs[contributor]
             total == info.total_contributions + 1
         IN  MapPut(contribs, contributor,
                 [total_contributions |-> total,
                  data_quality_average |->
                      (info.data_quality_average * (total - 1) + quality_score) \div total,
                  last_contribution |-> ts,
                  reputation_score |-> quality_score,
                  verification_count |-> info.verification_count])
    ELSE MapPut(contribs, contributor,
                 [total_contributions |-> 1,
                  data_quality_average |-> quality_score,
                  last_contribution |-> ts,
                  reputation_score |-> quality_score,
                  verification_count |-> 0])

\* an update that is lost when the contributor's record was already written
\* in the same block (the second writer's record is dropped)
update_contributor_info_lost(contribs, contributor, quality_score, ts) ==
    IF contributor \in DOMAIN contribs
    THEN LET info == contribs[contributor]
             total == info.total_contributions + 1
         IN  IF info.last_contribution = ts THEN contribs
             ELSE MapPut(contribs, contributor,
                 [total_contributions |-> total,
                  data_quality_average |->
                      (info.data_quality_average * (total - 1) + quality_score) \div total,
                  last_contribution |-> ts,
                  reputation_score |-> info.reputation_score + quality_score,
                  verification_count |-> info.verification_count])
    ELSE MapPut(contribs, contributor,
                 [total_contributions |-> 1,
                  data_quality_average |-> quality_score,
                  last_contribution |-> ts,
                  reputation_score |-> quality_score,
                  verification_count |-> 0])

\* Analytics::update_contributor_info at block timestamp ts: the
\* contributors mapping it leaves
update_contributor_info(contribs, contributor, quality_score, ts) ==
    IF contributor \in DOMAIN contribs
    THEN LET info == contribs[contributor]
             total == info.total_contributions + 1
         IN  MapPut(contribs, contributor,
                 [total_contributions |-> total,
                  data_quality_average |->
                      (info.data_quality_average * (total - 1) + quality_score) \div total,
                  last_contribution |-> ts,
                  reputation_score |-> info.reputation_score + quality_score,
                  verification_count |-> info.verification_count])
    ELSE MapPut(contribs, contributor,
                 [total_contributions |-> 1,
                  data_quality_average |-> quality_score,
                  last_contribution |-> ts,
                  reputation_score |-> quality_score,
                  verification_count |-> 0])

\* the storage of the contract as one value
Storage ==
    [metrics |-> metrics, proofs |-> proofs, privacy_levels |-> privacy_levels,
     trusted_nodes |-> trusted_nodes, contributors |-> contributors]

\* the storage writes of an accepted submit_metric
StoreSubmission(st, caller, metric_type, value, proof, data_quality_score, ts) ==
    LET privacy_level == IF caller \in DOMAIN st.privacy_levels
                         THEN st.privacy_levels[caller] ELSE "High"
        proof_id == ts
        metric_value == [value |-> value, timestamp |-> ts, proof_id |-> proof_id,
                         privacy_level |-> privacy_level,
                         data_quality_score |-> data_quality_score,
                         source_node |-> caller]
    IN  [result |-> "Ok",
         metrics |-> MapPut(st.metrics, metric_type, metric_value),
         proofs |-> MapPut(st.proofs, proof_id, proof),
         contributors |-> update_contributor_info(st.contributors, caller,
                                                  data_quality_score, ts)]

Rejected(st, error) ==
    [result |-> error, metrics |-> st.metrics, proofs |-> st.proofs,
     contributors |-> st.contributors]

\* a submit_metric that stores the proof before it verifies it
submit_metric_store_first(st, caller, metric_type, value, proof, data_quality_score, ts) ==
    IF ~is_trusted_node(st.trusted_nodes, caller) THEN Rejected(st, "UnauthorizedNode")
    ELSE IF data_quality_score < 70 THEN Rejected(st, "DataQualityTooLow")
    ELSE IF ~contract_verify_proof(proof, metric_type, value)
         THEN [Rejected(st, "InvalidProof") EXCEPT !.proofs = MapPut(st.proofs, ts, proof)]
    ELSE StoreSubmission(st, caller, metric_type, value, proof, data_quality_score, ts)

\* Analytics::submit_metric called by caller at block timestamp ts: the
\* result and the metrics, proofs and contributors mappings it leaves
submit_metric(st, caller, metric_type, value, proof, data_quality_score, ts) ==
    IF ~is_trusted_node(st.trusted_nodes, caller) THEN Rejected(st, "UnauthorizedNode")
    ELSE IF data_quality_score < 70 THEN Rejected(st, "DataQualityTooLow")
    ELSE IF ~contract_verify_proof(proof, metric_type, value)
         THEN Rejected(st, "InvalidProof")
    ELSE StoreSubmission(st, caller, metric_type, value, proof, data_quality_score, ts)

\* an add_trusted_node that pushes the node whether or not it is listed
add_trusted_node_push(nodes, caller, node) ==
    IF caller # Owner THEN [result |-> "InsufficientPermission", trusted_nodes |-> nodes]
    ELSE [result |-> "Ok", trusted_nodes |-> Append(nodes, node)]

\* Analytics::add_trusted_node: the result and the Vec it leaves
add_trusted_node(nodes, caller, node) ==
    IF caller # Owner THEN [result |-> "InsufficientPermission", trusted_nodes |-> nodes]
    ELSE IF node \notin Range(nodes) THEN [result |-> "Ok", trusted_nodes |-> Append(nodes, node)]
    ELSE [result |-> "Ok", trusted_nodes |-> nodes]

\* Analytics::set_privacy_level: the mapping it leaves
set_privacy_level(levels, caller, level) == MapPut(levels, caller, level)

\* ZKProof values offered to the contract
ProofFor(value) ==
    [proof_value |-> <<1, 2, 3, 4>>, public_inputs |-> <<value>>,
     verification_key |-> <<5, 6, 7, 8>>, circuit_id |-> 0]
ProofEmptyValue(value) == [ProofFor(value) EXCEPT !.proof_value = <<>>]
ProofNoInputs == [ProofFor(0) EXCEPT !.public_inputs = <<>>]

\* arguments offered to submit_metric in the contract specification
SubmitCallers == {Alice, Bob}
SubmitTypes == {"AverageBlockTime", "TransactionVolume"}
SubmitValues == {1234}
SubmitProofs == {ProofFor(1234), ProofFor(1000), ProofEmptyValue(1234), ProofNoInputs}
SubmitQualities == {69, 70, 100}

\* arguments offered to add_trusted_node and set_privacy_level
AdminCallers == {Owner, Alice}
AddableNodes == {Alice, Bob}
LevelCallers == {Alice, Bob}
OfferedLevels == {"Maximum", "Minimal"}

\* arguments offered in the reputation specification: well-formed
\* submissions of varying quality
ScoreCallers == {Alice, Bob}
ScoreTypes == {"AverageBlockTime"}
ScoreValues == {1234}
ScoreProofs == {ProofFor(1234)}
ScoreQualities == {80, 90, 100}

\* the level a caller has set last, High if it never set one
LastLevel(caller) ==
    IF caller \in DOMAIN level_log THEN level_log[caller][Len(level_log[caller])] ELSE "High"

\* the number of set_privacy_level calls made
LevelCalls ==
    SeqSum([i \in 1..3 |-> LET c == <<Owner, Alice, Bob>>[i]
                           IN  IF c \in DOMAIN level_log THEN Len(level_log[c]) ELSE 0])

AcceptedCount ==
    SeqSum([i \in 1..3 |-> LET c == <<Owner, Alice, Bob>>[i]
                           IN  IF c \in DOMAIN accepted THEN Len(accepted[c]) ELSE 0])

\* a submit_metric message with arguments from the given sets; at most
\* max submissions are accepted in a behaviour
SubmitMetricFrom(callers, types, values, offered, qualities, max) ==
    /\ \E caller \in callers, metric_type \in types, value \in values,
          proof \in offered, q \in qualities :
         LET out == submit_metric(Storage, caller, metric_type, value, proof, q,
                                  block_timestamp)
         IN  /\ out.result = "Ok" => AcceptedCount < max
             /\ metrics' = out.metrics
             /\ proofs' = out.proofs
             /\ contributors' = out.contributors
             /\ msg_out' = [op |-> "submit_metric", caller |-> caller,
                            metric_type |-> metric_type, value |-> value,
                            proof |-> proof, data_quality_score |-> q,
                            result |-> out.result]
             /\ accepted' = IF out.result = "Ok"
                            THEN MapPut(accepted, caller,
                                        IF caller \in DOMAIN accepted
                                        THEN Append(accepted[caller], q) ELSE <<q>>)
                            ELSE accepted
             /\ last_accepted' = IF out.result = "Ok"
                                 THEN MapPut(last_accepted, metric_type,
                                          [caller |-> caller, value |-> value,
                                           proof |-> proof,
                                           data_quality_score |-> q,
                                           at |-> block_timestamp,
                                           level |-> LastLevel(caller)])
                                 ELSE last_accepted
    /\ UNCHANGED <<privacy_levels, trusted_nodes, block_timestamp, level_log>>

SubmitMetric ==
    SubmitMetricFrom(SubmitCallers, SubmitTypes, SubmitValues, SubmitProofs,
                     SubmitQualities, MaxSubmits)

SubmitScore ==
    SubmitMetricFrom(ScoreCallers, ScoreTypes, ScoreValues, ScoreProofs,
                     ScoreQualities, MaxScores)

\* arguments offered in the quality specification: one trusted node, a
\* well-formed proof and data_quality_score values over the u8 range
QualityCallers == {Bob}
QualityTypes == {"AverageBlockTime"}
QualityValues == {1234}
QualityProofs == {ProofFor(1234)}
QualityScores == {69, 70, 71, 72, 101, 255}

SubmitQuality ==
    SubmitMetricFrom(QualityCallers, QualityTypes, QualityValues, QualityProofs,
                     QualityScores, MaxScores)

\* an add_trusted_node message with arguments from the given sets
AddTrustedNodeFrom(callers, nodes) ==
    /\ \E caller \in callers, node \in nodes :
         LET out == add_trusted_node(trusted_nodes, caller, node)
         IN  /\ trusted_nodes' = out.trusted_nodes
             /\ msg_out' = [op |-> "add_trusted_node", caller |-> caller,
                            node |-> node, result |-> out.result]
    /\ UNCHANGED <<metrics, proofs, privacy_levels, contributors, block_timestamp, accepted,
                   last_accepted, level_log>>

AddTrustedNode == AddTrustedNodeFrom(AdminCallers, AddableNodes)

AddNodeQuality == AddTrustedNodeFrom({Owner}, QualityCallers)

\* arguments offered in the proof-id specification: one trusted node
\* submitting two values under two metric types, each with its own proof
ProofIdCallers == {Bob}
ProofIdTypes == {"AverageBlockTime", "TransactionVolume"}
ProofIdValues == {1000, 1234}
ProofIdProofs == {ProofFor(1000), ProofFor(1234)}
ProofIdQualities == {90}

SubmitProofId ==
    SubmitMetricFrom(ProofIdCallers, ProofIdTypes, ProofIdValues, ProofIdProofs,
                     ProofIdQualities, MaxScores)

AddNodeProofId == AddTrustedNodeFrom({Owner}, ProofIdCallers)

\* a set_privacy_level message with arguments from the given sets; at most
\* max calls are made in a behaviour
SetPrivacyLevelFrom(callers, levels, max) ==
    /\ LevelCalls < max
    /\ \E caller \in callers, level \in levels :
         /\ privacy_levels' = set_privacy_level(privacy_levels, caller, level)
         /\ msg_out' = [op |-> "set_privacy_level", caller |-> caller,
                        level |-> level, result |-> "Ok"]
         /\ level_log' = MapPut(level_log, caller,
                                IF caller \in DOMAIN level_log
                                THEN Append(level_log[caller], level) ELSE <<level>>)
    /\ UNCHANGED <<metrics, proofs, trusted_nodes, contributors, block_timestamp, accepted,
                   last_accepted>>

SetPrivacyLevel == SetPrivacyLevelFrom(LevelCallers, OfferedLevels, MaxLevels)

\* a new block
AdvanceBlock ==
    /\ block_timestamp < MaxBlock
    /\ block_timestamp' = block_timestamp + 1
    /\ UNCHANGED <<metrics, proofs, privacy_levels, trusted_nodes, contributors,
                   msg_out, accepted, last_accepted, level_log>>

----------------------------------------------------------------------------
(* contracts/analytics/lib.rs : the read path *)

MaxViews == 2       \* filters applied one after the other

\* AccountId::from([0u8; 32])
ZeroAccount == "zero"

\* a filter that rounds to the nearest multiple instead of flooring
apply_privacy_filter_nearest(metric, privacy_level) ==
    IF privacy_level = "Maximum"
    THEN [metric EXCEPT !.value = ((metric.value + 500) \div 1000) * 1000,
                        !.data_quality_score = 0,
                        !.source_node = ZeroAccount]
    ELSE IF privacy_level = "High"
    THEN [metric EXCEPT !.value = ((metric.value + 50) \div 100) * 100,
                        !.data_quality_score = ((metric.data_quality_score + 5) \div 10) * 10,
                        !.source_node = ZeroAccount]
    ELSE IF privacy_level = "Medium"
    THEN [metric EXCEPT !.value = ((metric.value + 5) \div 10) * 10,
                        !.source_node = ZeroAccount]
    ELSE IF privacy_level = "Low"
    THEN [metric EXCEPT !.source_node = ZeroAccount]
    ELSE metric

\* a filter whose Maximum tier forgets to anonymize the source
apply_privacy_filter_keeps_source(metric, privacy_level) ==
    IF privacy_level = "Maximum"
    THEN [metric EXCEPT !.value = (metric.value \div 1000) * 1000,
                        !.data_quality_score = 0]
    ELSE IF privacy_level = "High"
    THEN [metric EXCEPT !.value = (metric.value \div 100) * 100,
                        !.data_quality_score = (metric.data_quality_score \div 10) * 10,
                        !.source_node = ZeroAccount]
    ELSE IF privacy_level = "Medium"
    THEN [metric EXCEPT !.value = (metric.value \div 10) * 10,
                        !.source_node = ZeroAccount]
    ELSE IF privacy_level = "Low"
    THEN [metric EXCEPT !.source_node = ZeroAccount]
    ELSE metric

\* Analytics::apply_privacy_filter
apply_privacy_filter(metric, privacy_level) ==
    IF privacy_level = "Maximum"
    THEN [metric EXCEPT !.value = (metric.value \div 1000) * 1000,
                        !.data_quality_score = 0,
                        !.source_node = ZeroAccount]
    ELSE IF privacy_level = "High"
    THEN [metric EXCEPT !.value = (metric.value \div 100) * 100,
                        !.data_quality_score = (metric.data_quality_score \div 10) * 10,
                        !.source_node = ZeroAccount]
    ELSE IF privacy_level = "Medium"
    THEN [metric EXCEPT !.value = (metric.value \div 10) * 10,
                        !.source_node = ZeroAccount]
    ELSE IF privacy_level = "Low"
    THEN [metric EXCEPT !.source_node = ZeroAccount]
    ELSE metric

\* MetricValue records as submit_metric stores them: the quality score is a
\* u8 of at least 70, the proof id is the timestamp
FilterMetrics ==
    { [value |-> v, timestamp |-> ts, proof_id |-> ts, privacy_level |-> pl,
       data_quality_score |-> q, source_node |-> n] :
        v \in {0, 999, 1000, 1234, 15999}, ts \in {7}, pl \in {"High", "Minimal"},
        q \in {70, 75, 89, 100, 255}, n \in {Alice, Bob} }

\* the metric a filter number i is applied to
FilterInput(i) == IF i = 1 THEN filter_metric ELSE filter_views[i - 1].view

\* apply_privacy_filter applied to the stored metric or to the last view
ApplyPrivacyFilter ==
    /\ Len(filter_views) < MaxViews
    /\ \E level \in PrivacyLevels :
         filter_views' = Append(filter_views,
             [level |-> level,
              view |-> apply_privacy_filter(FilterInput(Len(filter_views) + 1), level)])
    /\ UNCHANGED filter_metric

MaxViewSubmits == 2     \* accepted submit_metric calls per behaviour, read-path specification
MaxViewLevels == 2     \* set_privacy_level calls per behaviour, read-path specification

\* a get_metric that filters at the level stored with the metric (the
\* submitter's) instead of the caller's
get_metric_submitter_level(stored, levels, caller, metric_type) ==
    IF metric_type \in DOMAIN stored
    THEN Some(apply_privacy_filter(stored[metric_type], stored[metric_type].privacy_level))
    ELSE None

\* Analytics::get_metric called by caller: an Option<MetricValue>
get_metric(stored, levels, caller, metric_type) ==
    LET user_privacy == IF caller \in DOMAIN levels THEN levels[caller] ELSE "High"
    IN  IF metric_type \in DOMAIN stored
        THEN Some(apply_privacy_filter(stored[metric_type], user_privacy))
        ELSE None

\* arguments offered in the read-path specification
ViewSubmitters == {Bob}
ViewValues == {1234}
ViewProofs == {ProofFor(1234)}
ViewQualities == {75, 100}
ViewCallers == {Alice, Bob}
ViewLevelSetters == {Bob}
ViewLevels == {"Maximum", "Minimal"}

SubmitView ==
    SubmitMetricFrom(ViewSubmitters, MetricTypes, ViewValues, ViewProofs,
                     ViewQualities, MaxViewSubmits)

AddNodeView == AddTrustedNodeFrom({Owner}, ViewSubmitters)

SetLevelView == SetPrivacyLevelFrom(ViewLevelSetters, ViewLevels, MaxViewLevels)

\* a get_metric message
GetMetric ==
    /\ \E caller \in ViewCallers, metric_type \in MetricTypes :
         msg_out' = [op |-> "get_metric", caller |-> caller, metric_type |-> metric_type,
                     result |-> get_metric(metrics, privacy_levels, caller, metric_type)]
    /\ UNCHANGED <<metrics, proofs, privacy_levels, trusted_nodes, contributors,
                   block_timestamp, accepted, last_accepted, level_log>>

----------------------------------------------------------------------------
(* contracts/analytics/lib.rs : calculate_data_freshness *)

\* the metric_types array of calculate_data_freshness
TrackedMetricTypes ==
    <<"AverageBlockTime", "TransactionVolume", "ValidatorUptime", "NetworkCongestion">>

\* the freshness of one metric of the given age
freshness_of_age(age) ==
    IF age < 300 THEN 100
    ELSE IF age < 600 THEN 80
    ELSE IF age < 1800 THEN 60
    ELSE IF age < 3600 THEN 40
    ELSE 20

\* a freshness that counts a category without a metric as 0
calculate_data_freshness_penalized(stored, current_time) ==
    LET freshness(i) ==
            IF TrackedMetricTypes[i] \in DOMAIN stored
            THEN freshness_of_age(SaturatingSub(current_time,
                                                stored[TrackedMetricTypes[i]].timestamp))
            ELSE 0
        total_freshness == SeqSum([i \in 1..Len(TrackedMetricTypes) |-> freshness(i)])
        count == Len(TrackedMetricTypes)
    IN  IF count > 0 THEN (total_freshness \div count) % 256 ELSE 0

\* Analytics::calculate_data_freshness on the metrics mapping stored, at
\* block timestamp current_time; the loop adds the freshness of every tracked
\* type that has a metric to total_freshness and counts it
calculate_data_freshness(stored, current_time) ==
    LET freshness(i) ==
            IF TrackedMetricTypes[i] \in DOMAIN stored
            THEN freshness_of_age(SaturatingSub(current_time,
                                                stored[TrackedMetricTypes[i]].timestamp))
            ELSE 0
        total_freshness == SeqSum([i \in 1..Len(TrackedMetricTypes) |-> freshness(i)])
        count == Cardinality({ i \in 1..Len(TrackedMetricTypes) :
                                  TrackedMetricTypes[i] \in DOMAIN stored })
    IN  IF count > 0 THEN (total_freshness \div count) % 256 ELSE 0

\* a MetricValue stored by Bob at the given block timestamp
StoredAt(ts) ==
    [value |-> 1234, timestamp |-> ts, proof_id |-> ts, privacy_level |-> "High",
     data_quality_score |-> 90, source_node |-> Bob]

\* metrics mappings and block timestamps handed to calculate_data_freshness:
\* every tracked type and one that is not tracked has no metric or one stored
\* at block timestamp 0 or 100, and the call is made at or after 100
FreshnessStores ==
    { [op |-> "calculate_data_freshness", metrics |-> m, current_time |-> t] :
        m \in UNION { [d -> {StoredAt(0), StoredAt(100)}] :
                        d \in SUBSET {"AverageBlockTime", "TransactionVolume",
                                      "ValidatorUptime", "NetworkCongestion"} },
        t \in {100, 299, 300, 399, 400, 599, 600, 699, 1799, 1800, 1899, 3599, 3600,
               3699, 3700} }
    \cup
    { [op |-> "calculate_data_freshness",
       metrics |-> ("ChainActivity" :> StoredAt(100)) @@ m, current_time |-> t] :
        m \in UNION { [d -> {StoredAt(0)}] :
                        d \in SUBSET {"AverageBlockTime", "TransactionVolume"} },
        t \in {100, 700, 3700} }

\* a call of get_network_health_score, which reports calculate_data_freshness
CalculateDataFreshness ==
    /\ fresh_out = NoCall
    /\ fresh_out' = [op |-> "calculate_data_freshness",
                     data_freshness |-> calculate_data_freshness(fresh_in.metrics,
                                                                 fresh_in.current_time)]
    /\ UNCHANGED fresh_in

----------------------------------------------------------------------------
(* backend/src/services/health_service.rs : HealthService *)

\* f64 values are kept exactly, as multiples of 2^-55 written in three
\* limbs of 21 bits <<high, middle, low>>.  Every value that occurs is zero
\* or lies in [0.15, 256), where a double is a multiple of 2^-55 with at
\* most 53 significant bits.
F64Limb == 2 ^ 21

\* the f64 literals 0.25, 0.20 and 0.15 (the doubles nearest to them)
F64Quarter == <<2048, 0, 0>>
F64Fifth == <<1638, 838860, 1677722>>
F64Fifteen == <<1228, 1677721, 1258291>>

\* carries between the limbs
F64Norm(n) ==
    LET a1 == n[2] + n[3] \div F64Limb
    IN  <<n[1] + a1 \div F64Limb, a1 % F64Limb, n[3] % F64Limb>>

\* the exact value n rounded to 53 significant bits, ties to even: what
\* every f64 multiplication and addition does with its exact result
F64Round(n) ==
    LET sh == Cardinality({ k \in 1..10 : n[1] >= 2 ^ (10 + k) })
        unit == 2 ^ sh
        r == n[3] % unit
        up == /\ sh >= 1
              /\ \/ 2 * r > unit
                 \/ 2 * r = unit /\ (n[3] \div unit) % 2 = 1
    IN  F64Norm(<<n[1], n[2], n[3] - r + (IF up THEN unit ELSE 0)>>)

\* score as f64 * w for a u8 score
F64Mul(score, w) == F64Round(F64Norm(<<w[1] * score, w[2] * score, w[3] * score>>))

\* x + y
F64Add(x, y) == F64Round(F64Norm(<<x[1] + y[1], x[2] + y[2], x[3] + y[3]>>))

\* x as u8: truncated, saturating at 255
F64AsU8(x) == IF x[1] \div (2 ^ 13) > 255 THEN 255 ELSE x[1] \div (2 ^ 13)

\* a weighted sum in which the availability counts 0.20 as the three
\* scores before it do
overall_score_heavy(m) ==
    F64AsU8(F64Add(F64Add(F64Add(F64Add(F64Mul(m.connectivity_score, F64Quarter),
                                        F64Mul(m.throughput_score, F64Fifth)),
                                 F64Mul(m.latency_score, F64Fifth)),
                          F64Mul(m.consensus_score, F64Fifth)),
                   F64Mul(m.availability_score, F64Fifth)))

\* the weighted sum of calculate_network_health, added from left to right
overall_score(m) ==
    F64AsU8(F64Add(F64Add(F64Add(F64Add(F64Mul(m.connectivity_score, F64Quarter),
                                        F64Mul(m.throughput_score, F64Fifth)),
                                 F64Mul(m.latency_score, F64Fifth)),
                          F64Mul(m.consensus_score, F64Fifth)),
                   F64Mul(m.availability_score, F64Fifteen)))

\* a status match whose Healthy and Warning ranges start one too high
network_status_strict(score) ==
    IF score \in 91..100 THEN "Healthy"
    ELSE IF score \in 71..90 THEN "Warning"
    ELSE IF score \in 0..70 THEN "Critical"
    ELSE "Unknown"

\* the match of calculate_network_health over overall_score
network_status(score) ==
    IF score \in 90..100 THEN "Healthy"
    ELSE IF score \in 70..89 THEN "Warning"
    ELSE IF score \in 0..69 THEN "Critical"
    ELSE "Unknown"

\* HealthService::generate_health_warnings: the Vec of warnings
generate_health_warnings(status, score) ==
    IF status = "Critical"
    THEN <<[level |-> "Critical", component |-> "network", score |-> score]>>
    ELSE IF status = "Warning"
    THEN <<[level |-> "Warning", component |-> "network", score |-> score]>>
    ELSE <<>>

\* HealthService::calculate_health_trends
calculate_health_trends == [daily_trend |-> 5, weekly_trend |-> 2, monthly_trend |-> -1]

\* HealthService::check_blockchain_connectivity
check_blockchain_connectivity == TRUE

\* HealthService::calculate_connectivity_score, given what
\* Database::is_connected answered
calculate_connectivity_score(is_connected) ==
    IF is_connected
    THEN IF check_blockchain_connectivity THEN 95 ELSE 60
    ELSE 20

\* HealthService::calculate_throughput_score
calculate_throughput_score == 85

\* HealthService::calculate_latency_score
calculate_latency_score == 88

\* HealthService::calculate_consensus_score
calculate_consensus_score == 92

\* HealthService::calculate_availability_score
calculate_availability_score == 96

\* HealthService::calculate_network_health, given what Database::is_connected
\* answered
calculate_network_health(is_connected) ==
    LET m == [connectivity_score |-> calculate_connectivity_score(is_connected),
              throughput_score |-> calculate_throughput_score,
              latency_score |-> calculate_latency_score,
              consensus_score |-> calculate_consensus_score,
              availability_score |-> calculate_availability_score]
        overall == overall_score(m)
        status == network_status(overall)
    IN  [overall_score |-> overall,
         network_status |-> status,
         metrics |-> m,
         trends |-> calculate_health_trends,
         warnings |-> generate_health_warnings(status, overall)]

\* HealthCache::cache_duration, in seconds
cache_duration == 30

MaxInstant == 31    \* the monotonic clock runs 0..MaxInstant

MaxHealthCalls == 2    \* get_network_health calls under way at a time

\* the time_range and detail_level arguments of get_network_health: the
\* defaults of the /network handler and the level of a detailed report
TimeRanges == {3600}
DetailLevels == {"basic", "detailed"}

\* the calls under way without the i-th, which has returned
WithoutCall(calls, i) ==
    SubSeq(calls, 1, i - 1) \o SubSeq(calls, i + 1, Len(calls))

\* the monotonic clock advances
TickInstant ==
    /\ instant < MaxInstant
    /\ instant' = instant + 1
    /\ UNCHANGED <<health_cache, health_calls, health_out, statusVars>>

\* get_network_health up to the read lock of health_cache; the service is
\* shared (&self in an Arc), so a call starts while others are under way
GetNetworkHealth ==
    /\ Len(health_calls) < MaxHealthCalls
    /\ \E time_range \in TimeRanges, detail_level \in DetailLevels :
         health_calls' = Append(health_calls,
                                [op |-> "get_network_health", time_range |-> time_range,
                                 detail_level |-> detail_level, pc |-> "cache"])
    /\ UNCHANGED <<health_cache, instant, health_out, statusVars>>

\* get_network_health under the read lock: a response cached less than
\* cache_duration ago is returned; otherwise calculate_network_health starts
\* and awaits the database's answer for the connectivity score
GetNetworkHealthCached ==
    /\ \E i \in 1..Len(health_calls) :
         /\ health_calls[i].pc = "cache"
         /\ IF health_cache # None /\ instant - health_cache[1].cached_at < cache_duration
            THEN /\ health_out' = [op |-> "get_network_health",
                                   time_range |-> health_calls[i].time_range,
                                   detail_level |-> health_calls[i].detail_level,
                                   response |-> health_cache[1].health]
                 /\ health_calls' = WithoutCall(health_calls, i)
            ELSE /\ health_calls' = [health_calls EXCEPT ![i].pc = "connectivity"]
                 /\ UNCHANGED health_out
    /\ UNCHANGED <<health_cache, instant, statusVars>>

\* calculate_network_health from the answer of Database::is_connected (the
\* query SELECT 1 succeeded or failed) to the write lock of health_cache: the
\* five scores, the overall score, the status, the warnings and the trends
CalculateNetworkHealth ==
    /\ \E i \in 1..Len(health_calls) :
         /\ health_calls[i].pc = "connectivity"
         /\ \E is_connected \in BOOLEAN :
              health_calls' = [health_calls EXCEPT ![i] =
                                  [op |-> "get_network_health",
                                   time_range |-> health_calls[i].time_range,
                                   detail_level |-> health_calls[i].detail_level,
                                   pc |-> "store",
                                   health |-> calculate_network_health(is_connected)]]
    /\ UNCHANGED <<health_cache, instant, health_out, statusVars>>

\* get_network_health from the write lock on: the response is cached with
\* the time of the insert, whatever the cache holds, and returned
GetNetworkHealthStore ==
    /\ \E i \in 1..Len(health_calls) :
         /\ health_calls[i].pc = "store"
         /\ health_cache' = Some([health |-> health_calls[i].health, cached_at |-> instant])
         /\ health_out' = [op |-> "get_network_health",
                           time_range |-> health_calls[i].time_range,
                           detail_level |-> health_calls[i].detail_level,
                           response |-> health_calls[i].health]
         /\ health_calls' = WithoutCall(health_calls, i)
    /\ UNCHANGED <<instant, statusVars>>

\* the overall scores the status match is applied to: every u8
OverallScores == 0..255

\* the status match and generate_health_warnings of calculate_network_health
\* applied to an overall score
NetworkStatusAndWarnings ==
    /\ status_out = NoCall
    /\ status_out' = [op |-> "network_status",
                      overall_score |-> status_in,
                      network_status |-> network_status(status_in),
                      warnings |-> generate_health_warnings(network_status(status_in),
                                                            status_in)]
    /\ UNCHANGED <<health_cache, health_calls, instant, health_out, status_in>>

----------------------------------------------------------------------------
(* zkproof/src/circuits.rs : CircuitManager as a catalog that grows *)

MaxRegistered == 2      \* register_circuit calls after CircuitManager::new

\* circuits offered to register_circuit: ids below, among and above the
\* default ones, one of them replacing the default circuit 1
OfferedCircuits ==
    {NewCircuit(0, 10, 5), NewCircuit(4, 50, 20), NewCircuit(1, 200, 100), NewCircuit(5, 3, 2)}

\* shapes offered to select_optimal_circuit
OfferedDataPoints == {3, 5, 11, 50, 201}
OfferedSources == {2, 3, 6, 101}

\* a call of register_circuit
RegisterCircuit ==
    /\ Len(manager.type_mapping) < Len(DefaultManager.type_mapping) + MaxRegistered
    /\ \E circuit \in OfferedCircuits :
         manager' = register_circuit(manager, circuit)
    /\ UNCHANGED select_out

\* a call of select_optimal_circuit for CircuitType::NetworkMetric
SelectOptimalCircuit ==
    /\ \E data_points \in OfferedDataPoints, sources \in OfferedSources :
         select_out' = [op |-> "select_optimal_circuit", manager |-> manager,
                        data_points |-> data_points, sources |-> sources,
                        result |-> select_optimal_circuit(manager, data_points, sources)]
    /\ UNCHANGED manager

----------------------------------------------------------------------------
(* zkproof/src/circuits.rs : verify_constraints on its own *)

\* calls offered to verify_constraints: the small default circuit and a
\* smaller one, aggregates at and next to the 5% bounds of the means 6050
\* and 200, quality scores around 100 and around the reliability bound
ConstraintCalls ==
    [circuit : {NewCircuit(1, 10, 5), NewCircuit(9, 3, 2)},
     private_data : {<<>>, Readings, <<100, 200, 300>>, <<200, 201>>},
     data_sources : {<<90>>, <<90, 85>>, <<90, 85, 95>>, <<95, 87>>, <<200, 200>>, <<70, 71>>},
     public_metric : {0, 190, 191, 200, 210, 211, 5761, 5762, 6050, 6368, 6369, 6500},
     quality_score : {0, 80, 88, 92, 97, 98, 100, 101, 150, 255}]

\* a call of verify_constraints
VerifyConstraints ==
    /\ vc_out = NoCall
    /\ vc_out' = [op |-> "verify_constraints",
                  result |-> verify_constraints(vc_in.circuit, vc_in.private_data,
                                                vc_in.data_sources, vc_in.public_metric,
                                                vc_in.quality_score)]
    /\ UNCHANGED vc_in

----------------------------------------------------------------------------
(* zkproof/src/circuits.rs : estimate_complexity on its own *)

\* circuits and shapes handed to estimate_complexity: the shape of the
\* crate's test (10 data points, 5 sources on a 100/50 circuit), small shapes
\* and shapes large enough for a thousand constraints
ComplexityShapes ==
    [op : {"estimate_complexity"},
     circuit : {NewCircuit(1, 100, 50), NewCircuit(3, 200, 100)},
     data_points : (1..10) \cup {100, 186, 187, 250},
     sources : {1, 2, 5, 50}]

\* a call of estimate_complexity
EstimateComplexity ==
    /\ complexity_out = NoCall
    /\ complexity_out' = [op |-> "estimate_complexity",
                          complexity |-> estimate_complexity(complexity_in.circuit,
                                                             complexity_in.data_points,
                                                             complexity_in.sources)]
    /\ UNCHANGED complexity_in

----------------------------------------------------------------------------
(* backend/src/services/contributor_service.rs : ContributorService *)

MaxSvcCalls == 3    \* register_contributor and update_contributor calls per behaviour

\* the address all calls are about
Address == "0xabc"

\* the ContributorInfo that register_contributor builds for a request at
\* time t
new_contributor_info(request, t) ==
    [address |-> request.address,
     display_name |-> request.display_name,
     registered_at |-> t,
     contributor_type |-> request.contributor_type,
     reputation_score |-> 100,
     contribution_stats |-> [total_contributions |-> 0, avg_data_quality |-> 0,
                             last_contribution_at |-> None],
     verification_status |-> "Unverified"]

\* the updates update_contributor applies to its copy of the record:
\* updates.display_name is None when the JSON value has no such string
apply_updates(contributor, updates) ==
    IF updates.display_name # None
    THEN [contributor EXCEPT !.display_name = updates.display_name]
    ELSE contributor

\* ContributorService::get_contributor: an Option, None for the error
get_contributor(cache, address) ==
    IF address \in DOMAIN cache THEN Some(cache[address]) ELSE None

\* ContributorRegistrationRequest values
RegistrationRequests ==
    [address : {Address},
     display_name : {None, Some("ann")},
     contributor_type : {"Individual", "Validator"}]

\* the updates of an update_contributor call
OfferedUpdates == [display_name : {None, Some("bea")}]

\* the calls that had returned when a new call starts
DoneCalls == { i \in 1..Len(svc_calls) : svc_calls[i].pc = "done" }

\* the wall clock advances while calls of the service are under way
TickForContributors == Tick /\ UNCHANGED contributorVars

\* register_contributor up to its write lock: the record is built, with
\* registered_at read from the clock, and the call awaits the lock
RegisterContributor ==
    /\ Len(svc_calls) < MaxSvcCalls
    /\ \E request \in RegistrationRequests :
         svc_calls' = Append(svc_calls,
                             [op |-> "register_contributor", request |-> request,
                              at |-> now, after |-> DoneCalls, pc |-> "insert",
                              contributor_info |-> new_contributor_info(request, now)])
    /\ UNCHANGED contributor_cache

\* register_contributor from its write lock on: the record built at the
\* start of the call is inserted and returned
RegisterContributorInsert ==
    \E i \in 1..Len(svc_calls) :
        /\ svc_calls[i].op = "register_contributor"
        /\ svc_calls[i].pc = "insert"
        /\ contributor_cache' = MapPut(contributor_cache, svc_calls[i].request.address,
                                       svc_calls[i].contributor_info)
        /\ svc_calls' = [svc_calls EXCEPT ![i] =
                            [op |-> "register_contributor", request |-> svc_calls[i].request,
                             at |-> svc_calls[i].at, after |-> svc_calls[i].after,
                             pc |-> "done", result |-> "Ok"]]

\* update_contributor up to the read lock of its get_contributor: the call
\* has started and awaits the lock
UpdateContributor ==
    /\ Len(svc_calls) < MaxSvcCalls
    /\ \E updates \in OfferedUpdates :
         svc_calls' = Append(svc_calls,
                             [op |-> "update_contributor", address |-> Address,
                              updates |-> updates, after |-> DoneCalls, pc |-> "read"])
    /\ UNCHANGED contributor_cache

\* update_contributor from the read lock to its write lock: get_contributor
\* takes the read lock, clones the record and releases the lock; the updates
\* are applied to the clone.  An unknown address ends the call with the error.
UpdateContributorRead ==
    /\ \E i \in 1..Len(svc_calls) :
         /\ svc_calls[i].op = "update_contributor"
         /\ svc_calls[i].pc = "read"
         /\ LET found == get_contributor(contributor_cache, svc_calls[i].address)
            IN  svc_calls' = [svc_calls EXCEPT ![i] =
                    IF found = None
                    THEN [op |-> "update_contributor", address |-> svc_calls[i].address,
                          updates |-> svc_calls[i].updates, after |-> svc_calls[i].after,
                          pc |-> "done", result |-> "NotFound"]
                    ELSE [op |-> "update_contributor", address |-> svc_calls[i].address,
                          updates |-> svc_calls[i].updates, after |-> svc_calls[i].after,
                          pc |-> "write",
                          contributor |-> apply_updates(found[1], svc_calls[i].updates)]]
    /\ UNCHANGED contributor_cache

\* update_contributor from its write lock on: the clone is inserted
UpdateContributorWrite ==
    \E i \in 1..Len(svc_calls) :
        /\ svc_calls[i].op = "update_contributor"
        /\ svc_calls[i].pc = "write"
        /\ contributor_cache' = MapPut(contributor_cache, svc_calls[i].address,
                                       svc_calls[i].contributor)
        /\ svc_calls' = [svc_calls EXCEPT ![i] =
                            [op |-> "update_contributor", address |-> svc_calls[i].address,
                             updates |-> svc_calls[i].updates, after |-> svc_calls[i].after,
                             pc |-> "done", result |-> "Ok"]]

----------------------------------------------------------------------------
(* Specifications *)

\* The state after construction: ZKProofService::new of the zkproof crate
\* (empty proof cache), ZKProofService::new of the backend (one instance, no
\* pending proof), ZKVerifier::new (empty verification cache),
\* Analytics::new deployed by Owner (empty storage) and
\* ContributorService::new (empty contributor cache).  submissions is what
\* validate_submission is handed, held the pending_proofs maps the main
\* service starts with and first_id the first proof id it issues; views,
\* scores, calls, stores and shapes are what the functions checked on their own are
\* handed.
InitState(submissions, held, first_id, views, scores, calls, stores, shapes) ==
    /\ proof_cache = EmptyMap
    /\ now = 0
    /\ gen_call = NoCall
    /\ gen_out = NoCall
    /\ returned = EmptyMap
    /\ gen_calls = 0
    /\ val_in \in submissions
    /\ val_out = "none"
    /\ pending_maps \in { [i \in {MainService} |-> m] : m \in held }
    /\ gen_proof_calls = {}
    /\ tasks = EmptyMap
    /\ next_id = first_id
    /\ next_inst = 1
    /\ api_out = NoCall
    /\ verification_cache = EmptyMap
    /\ ver_out = NoCall
    /\ ver_seen = EmptyMap
    /\ ver_calls = 0
    /\ metrics = EmptyMap
    /\ proofs = EmptyMap
    /\ privacy_levels = EmptyMap
    /\ trusted_nodes = <<>>
    /\ contributors = EmptyMap
    /\ block_timestamp = 0
    /\ msg_out = NoCall
    /\ accepted = EmptyMap
    /\ last_accepted = EmptyMap
    /\ level_log = EmptyMap
    /\ filter_metric \in views
    /\ filter_views = <<>>
    /\ health_cache = None
    /\ health_calls = <<>>
    /\ instant = 0
    /\ health_out = NoCall
    /\ status_in \in scores
    /\ status_out = NoCall
    /\ manager = DefaultManager
    /\ select_out = NoCall
    /\ vc_in \in calls
    /\ vc_out = NoCall
    /\ cleanup_out = NoCall
    /\ fresh_in \in stores
    /\ fresh_out = NoCall
    /\ complexity_in \in shapes
    /\ complexity_out = NoCall
    /\ contributor_cache = EmptyMap
    /\ svc_calls = <<>>

\* the state in which every component has just been constructed
Init == InitState({"none"}, {EmptyMap}, 1, {NoCall}, {NoCall}, {NoCall}, {NoCall}, {NoCall})

\* ZKProofService of the zkproof crate
NextProof ==
    \/ GenerateMetricProof /\ UNCHANGED <<validateVars, backendVars, verifierVars, contractVars, pureVars, auxVars>>
    \/ ProverGenerateProof /\ UNCHANGED <<validateVars, backendVars, verifierVars, contractVars, pureVars, auxVars>>
    \/ GenerateMetricProofResumed /\ UNCHANGED <<validateVars, backendVars, verifierVars, contractVars, pureVars, auxVars>>
    \/ CleanupExpiredCache /\ UNCHANGED <<validateVars, backendVars, verifierVars, contractVars, pureVars, auxVars>>
    \/ Tick /\ UNCHANGED <<validateVars, backendVars, verifierVars, contractVars, pureVars, auxVars>>

SpecProof ==
    /\ Init
    /\ [][NextProof]_vars

\* ZKProofService of the zkproof crate under a wall clock that can be set back
NextCleanup ==
    \/ GenerateForCleanup /\ UNCHANGED <<validateVars, backendVars, verifierVars, contractVars, pureVars, funVars, contributorVars>>
    \/ ProverGenerateProof /\ UNCHANGED <<validateVars, backendVars, verifierVars, contractVars, pureVars, auxVars>>
    \/ GenerateMetricProofResumed /\ UNCHANGED <<validateVars, backendVars, verifierVars, contractVars, pureVars, auxVars>>
    \/ CleanupRecorded /\ UNCHANGED <<validateVars, backendVars, verifierVars, contractVars, pureVars, funVars, contributorVars>>
    \/ TickForCleanup /\ UNCHANGED <<validateVars, backendVars, verifierVars, contractVars, pureVars, funVars, contributorVars>>
    \/ ClockSetBack /\ UNCHANGED <<validateVars, backendVars, verifierVars, contractVars, pureVars, funVars, contributorVars>>

SpecCleanup ==
    /\ Init
    /\ [][NextCleanup]_vars

\* ZKProofService of the zkproof crate answering submissions that differ
NextKeys ==
    \/ GenerateForKeys /\ UNCHANGED <<validateVars, backendVars, verifierVars, contractVars, pureVars, auxVars>>
    \/ ProverGenerateProof /\ UNCHANGED <<validateVars, backendVars, verifierVars, contractVars, pureVars, auxVars>>
    \/ GenerateMetricProofResumed /\ UNCHANGED <<validateVars, backendVars, verifierVars, contractVars, pureVars, auxVars>>

SpecKeys ==
    /\ Init
    /\ [][NextKeys]_vars

\* validate_submission on its own
NextValidate ==
    ValidateSubmission /\ UNCHANGED <<proofVars, backendVars, verifierVars, contractVars, pureVars, auxVars>>

SpecValidate ==
    /\ InitState(ValSubmissions, {EmptyMap}, 1, {NoCall}, {NoCall}, {NoCall}, {NoCall}, {NoCall})
    /\ [][NextValidate]_vars

\* ZKProofService of the backend with its background tasks
NextBackend ==
    \/ GenerateProof /\ UNCHANGED <<proofVars, validateVars, verifierVars, contractVars, pureVars, auxVars>>
    \/ GenerateProofSpawn /\ UNCHANGED <<proofVars, validateVars, verifierVars, contractVars, pureVars, auxVars>>
    \/ TaskWake /\ UNCHANGED <<proofVars, validateVars, verifierVars, contractVars, pureVars, auxVars>>
    \/ TaskUpdate /\ UNCHANGED <<proofVars, validateVars, verifierVars, contractVars, pureVars, auxVars>>
    \/ GetProofStatus /\ UNCHANGED <<proofVars, validateVars, verifierVars, contractVars, pureVars, auxVars>>
    \/ CancelProofGeneration /\ UNCHANGED <<proofVars, validateVars, verifierVars, contractVars, pureVars, auxVars>>

SpecBackend ==
    /\ Init
    /\ [][NextBackend]_vars

\* status and cancellation calls on a service holding any pending_proofs map
NextCancel ==
    \/ GetProofStatus /\ UNCHANGED <<proofVars, validateVars, verifierVars, contractVars, pureVars, auxVars>>
    \/ CancelProofGeneration /\ UNCHANGED <<proofVars, validateVars, verifierVars, contractVars, pureVars, auxVars>>

SpecCancel ==
    /\ InitState({"none"}, HeldMaps, MaxProofs + 1, {NoCall}, {NoCall}, {NoCall}, {NoCall}, {NoCall})
    /\ [][NextCancel]_vars

\* ZKVerifier
NextVerifier ==
    \/ VerifyProof /\ UNCHANGED <<proofVars, validateVars, backendVars, contractVars, pureVars, auxVars>>
    \/ ClearCache /\ UNCHANGED <<proofVars, validateVars, backendVars, contractVars, pureVars, auxVars>>

SpecVerifier ==
    /\ Init
    /\ [][NextVerifier]_vars

\* the Analytics contract; every message is one transaction
NextContract ==
    \/ SubmitMetric /\ UNCHANGED <<proofVars, validateVars, backendVars, verifierVars, pureVars, auxVars>>
    \/ AddTrustedNode /\ UNCHANGED <<proofVars, validateVars, backendVars, verifierVars, pureVars, auxVars>>
    \/ SetPrivacyLevel /\ UNCHANGED <<proofVars, validateVars, backendVars, verifierVars, pureVars, auxVars>>
    \/ AdvanceBlock /\ UNCHANGED <<proofVars, validateVars, backendVars, verifierVars, pureVars, auxVars>>

SpecContract ==
    /\ Init
    /\ [][NextContract]_vars

\* the Analytics contract receiving well-formed submissions
NextReputation ==
    \/ SubmitScore /\ UNCHANGED <<proofVars, validateVars, backendVars, verifierVars, pureVars, auxVars>>
    \/ AddTrustedNode /\ UNCHANGED <<proofVars, validateVars, backendVars, verifierVars, pureVars, auxVars>>
    \/ AdvanceBlock /\ UNCHANGED <<proofVars, validateVars, backendVars, verifierVars, pureVars, auxVars>>

SpecReputation ==
    /\ Init
    /\ [][NextReputation]_vars

\* the Analytics contract receiving any u8 quality score from a trusted node
NextQuality ==
    \/ SubmitQuality /\ UNCHANGED <<proofVars, validateVars, backendVars, verifierVars, pureVars, auxVars>>
    \/ AddNodeQuality /\ UNCHANGED <<proofVars, validateVars, backendVars, verifierVars, pureVars, auxVars>>
    \/ AdvanceBlock /\ UNCHANGED <<proofVars, validateVars, backendVars, verifierVars, pureVars, auxVars>>

SpecQuality ==
    /\ Init
    /\ [][NextQuality]_vars

\* calculate_data_freshness on its own
NextFreshness ==
    CalculateDataFreshness /\ UNCHANGED <<serviceVars, pureVars, cleanup_out, complexityVars, contributorVars>>

SpecFreshness ==
    /\ InitState({"none"}, {EmptyMap}, 1, {NoCall}, {NoCall}, {NoCall}, FreshnessStores, {NoCall})
    /\ [][NextFreshness]_vars

\* estimate_complexity on its own
NextComplexity ==
    EstimateComplexity /\ UNCHANGED <<serviceVars, pureVars, cleanup_out, freshnessVars, contributorVars>>

SpecComplexity ==
    /\ InitState({"none"}, {EmptyMap}, 1, {NoCall}, {NoCall}, {NoCall}, {NoCall}, ComplexityShapes)
    /\ [][NextComplexity]_vars

\* the Analytics contract storing metrics of two types with their proofs
NextProofIds ==
    \/ SubmitProofId /\ UNCHANGED <<proofVars, validateVars, backendVars, verifierVars, pureVars, auxVars>>
    \/ AddNodeProofId /\ UNCHANGED <<proofVars, validateVars, backendVars, verifierVars, pureVars, auxVars>>
    \/ AdvanceBlock /\ UNCHANGED <<proofVars, validateVars, backendVars, verifierVars, pureVars, auxVars>>

SpecProofIds ==
    /\ Init
    /\ [][NextProofIds]_vars

\* ContributorService with calls that overlap
NextContributors ==
    \/ RegisterContributor /\ UNCHANGED <<serviceVars, pureVars, cleanup_out, funVars>>
    \/ RegisterContributorInsert /\ UNCHANGED <<serviceVars, pureVars, cleanup_out, funVars>>
    \/ UpdateContributor /\ UNCHANGED <<serviceVars, pureVars, cleanup_out, funVars>>
    \/ UpdateContributorRead /\ UNCHANGED <<serviceVars, pureVars, cleanup_out, funVars>>
    \/ UpdateContributorWrite /\ UNCHANGED <<serviceVars, pureVars, cleanup_out, funVars>>
    \/ TickForContributors /\ UNCHANGED <<validateVars, backendVars, verifierVars, contractVars, pureVars, cleanup_out, funVars>>

SpecContributors ==
    /\ Init
    /\ [][NextContributors]_vars

\* apply_privacy_filter on its own, applied to a stored metric and to views
NextFilter ==
    ApplyPrivacyFilter /\ UNCHANGED <<serviceVars, healthVars, catalogVars, constraintVars, auxVars>>

SpecFilter ==
    /\ InitState({"none"}, {EmptyMap}, 1, FilterMetrics, {NoCall}, {NoCall}, {NoCall}, {NoCall})
    /\ [][NextFilter]_vars

\* the Analytics contract written by one node and read by it and by another caller
NextView ==
    \/ SubmitView /\ UNCHANGED <<proofVars, validateVars, backendVars, verifierVars, pureVars, auxVars>>
    \/ AddNodeView /\ UNCHANGED <<proofVars, validateVars, backendVars, verifierVars, pureVars, auxVars>>
    \/ SetLevelView /\ UNCHANGED <<proofVars, validateVars, backendVars, verifierVars, pureVars, auxVars>>
    \/ GetMetric /\ UNCHANGED <<proofVars, validateVars, backendVars, verifierVars, pureVars, auxVars>>
    \/ AdvanceBlock /\ UNCHANGED <<proofVars, validateVars, backendVars, verifierVars, pureVars, auxVars>>

SpecView ==
    /\ Init
    /\ [][NextView]_vars

\* HealthService answering get_network_health calls that overlap
NextHealth ==
    \/ GetNetworkHealth /\ UNCHANGED <<serviceVars, filterVars, catalogVars, constraintVars, auxVars>>
    \/ GetNetworkHealthCached /\ UNCHANGED <<serviceVars, filterVars, catalogVars, constraintVars, auxVars>>
    \/ CalculateNetworkHealth /\ UNCHANGED <<serviceVars, filterVars, catalogVars, constraintVars, auxVars>>
    \/ GetNetworkHealthStore /\ UNCHANGED <<serviceVars, filterVars, catalogVars, constraintVars, auxVars>>
    \/ TickInstant /\ UNCHANGED <<serviceVars, filterVars, catalogVars, constraintVars, auxVars>>

SpecHealth ==
    /\ Init
    /\ [][NextHealth]_vars

\* the status match and the warnings on their own
NextStatus ==
    NetworkStatusAndWarnings /\ UNCHANGED <<serviceVars, filterVars, catalogVars, constraintVars, auxVars>>

SpecStatus ==
    /\ InitState({"none"}, {EmptyMap}, 1, {NoCall}, OverallScores, {NoCall}, {NoCall}, {NoCall})
    /\ [][NextStatus]_vars

\* the circuit catalog
NextCatalog ==
    \/ RegisterCircuit /\ UNCHANGED <<serviceVars, filterVars, healthVars, constraintVars, auxVars>>
    \/ SelectOptimalCircuit /\ UNCHANGED <<serviceVars, filterVars, healthVars, constraintVars, auxVars>>

SpecCatalog ==
    /\ Init
    /\ [][NextCatalog]_vars

\* verify_constraints on its own
NextConstraints ==
    VerifyConstraints /\ UNCHANGED <<serviceVars, filterVars, healthVars, catalogVars, auxVars>>

SpecConstraints ==
    /\ InitState({"none"}, {EmptyMap}, 1, {NoCall}, {NoCall}, ConstraintCalls, {NoCall}, {NoCall})
    /\ [][NextConstraints]_vars

----------------------------------------------------------------------------
(* Properties *)

\* C1: a generate_metric_proof call for a submission that the service has
\* already answered since the last cache cleanup succeeds, returns the very
\* same ZKProof (identical proof bytes) and reports a generation time of
\* zero, being served from the proof cache.
C1_CachedProofReturned ==
    [][ (/\ gen_calls' = gen_calls + 1
         /\ (IF gen_call' # NoCall THEN gen_call'.submission ELSE gen_out'.submission)
                \in DOMAIN returned)
          => /\ gen_call' = NoCall
             /\ gen_out'.result = "Ok"
             /\ gen_out'.proof = Some(returned[gen_out'.submission].proof)
             /\ gen_out'.metadata[1].generation_time = 0
             /\ proof_cache' = proof_cache ]_vars

\* a submission answered twice, the second time after the clock has moved on
C1_Witness ==
    /\ gen_out.op = "generate_metric_proof"
    /\ gen_out.result = "Ok"
    /\ gen_out.submission \in DOMAIN returned
    /\ returned[gen_out.submission].count >= 2
    /\ gen_out.metadata[1].generation_time = 0
    /\ gen_out.proof[1].created_at < now

\* the circuit-constraint check of a submission on the circuit that the
\* default catalog selects for its shape
FailsConstraints(submission) ==
    LET reliabilities == [i \in 1..Len(submission.data_sources) |->
                              submission.data_sources[i].reliability_score]
        selected == select_optimal_circuit(DefaultManager, Len(submission.private_data),
                                           Len(submission.data_sources))
    IN  /\ selected # None
        /\ ~verify_constraints(selected[1], submission.private_data, reliabilities,
                               submission.public_metric, submission.quality_score)

\* C2: a submission that passes validate_submission but fails
\* verify_constraints on the selected circuit is rejected with InvalidProof
\* and leaves no entry in the proof cache.
C2_ConstraintGate ==
    (/\ gen_out.op = "generate_metric_proof"
     /\ validate_submission(gen_out.submission) = "Ok"
     /\ FailsConstraints(gen_out.submission))
    => /\ gen_out.result = "InvalidProof"
       /\ generate_cache_key(gen_out.submission) \notin DOMAIN proof_cache

\* the five checks of the validator, in order, and their errors
ValidationChecks(submission) ==
    << submission.private_data # <<>>,
       Len(submission.data_sources) >= 2,
       submission.quality_score <= 100,
       submission.time_window_hours \in 1..24,
       \A i \in 1..Len(submission.data_sources) :
           submission.data_sources[i].reliability_score <= 100 >>

ValidationErrors ==
    <<MsgEmptyData, MsgFewSources, MsgQuality, MsgTimeWindow, MsgReliability>>

\* C3: validate_submission returns Ok exactly when all five checks hold and
\* otherwise the error of the first check that fails, in the order data,
\* sources, quality, window, reliabilities.
C3_ValidationOrder ==
    val_out # "none" =>
        LET checks == ValidationChecks(val_in)
            failing == { i \in 1..5 : ~checks[i] }
        IN  IF failing = {} THEN val_out = "Ok"
            ELSE val_out = ValidationErrors[CHOOSE i \in failing : \A j \in failing : i <= j]

\* a submission with quality 101 and window 25 is rejected for its quality
C3_Witness ==
    /\ val_out = MsgQuality
    /\ val_in.quality_score = 101
    /\ val_in.time_window_hours = 25
    /\ \E i \in 1..Len(val_in.data_sources) : val_in.data_sources[i].reliability_score > 100

\* C4: a get_proof_status call made after the background task of the proof
\* id has finished returns status Completed with the proof data present.
C4_CompletedVisible ==
    (/\ api_out.op = "get_proof_status"
     /\ api_out.task_finished)
    => /\ api_out.result = "Ok"
       /\ api_out.response[1].status = "Completed"
       /\ api_out.response[1].proof_data # None

\* the edges of the lifecycle Pending -> Processing -> {Completed, Failed,
\* Expired}, with cancellation from Pending or Processing to Failed
LifecycleEdges ==
    { <<"Pending", "Processing">>, <<"Pending", "Failed">>,
      <<"Processing", "Completed">>, <<"Processing", "Failed">>,
      <<"Processing", "Expired">> }

\* C5: the status recorded for a proof id changes only along the edges of
\* the lifecycle, so a Completed, Failed or Expired status never changes.
C5_Lifecycle ==
    [][ \A inst \in DOMAIN pending_maps :
          \A proof_id \in DOMAIN pending_maps[inst] :
            /\ proof_id \in DOMAIN pending_maps'[inst]
            /\ \/ pending_maps'[inst][proof_id].status = pending_maps[inst][proof_id].status
               \/ <<pending_maps[inst][proof_id].status,
                    pending_maps'[inst][proof_id].status>> \in LifecycleEdges ]_vars

\* a cancelled proof whose background task has finished since
C5_Witness ==
    \E proof_id \in DOMAIN tasks :
        /\ tasks[proof_id].pc = "finished"
        /\ pending_maps[MainService][proof_id].status = "Failed"

\* C6: cancel_proof_generation turns a Pending or Processing proof into a
\* Failed one, and leaves a Completed proof (status and proof data) as it
\* is; it returns success in both cases.
C6_Cancel ==
    (/\ api_out.op = "cancel_proof_generation"
     /\ api_out.before # None)
    => LET before == api_out.before[1]
           after == pending_maps[MainService][api_out.proof_id]
       IN  /\ before.status \in {"Pending", "Processing"}
                => /\ api_out.result = "Ok"
                   /\ after = [before EXCEPT !.status = "Failed"]
           /\ before.status = "Completed"
                => /\ api_out.result = "Ok"
                   /\ after = before

\* a Completed proof with its data, cancelled and unchanged
C6_Witness ==
    /\ api_out.op = "cancel_proof_generation"
    /\ api_out.before # None
    /\ api_out.before[1].status = "Completed"
    /\ api_out.before[1].proof_data # None
    /\ pending_maps[MainService][api_out.proof_id] = api_out.before[1]

\* C7: cancel_proof_generation for a proof id that was never issued reports
\* NotFound.
C7_CancelUnknown ==
    (/\ api_out.op = "cancel_proof_generation"
     /\ api_out.before = None)
    => api_out.result = "NotFound"

\* C8: a verify_proof call with arguments that were already verified since
\* the last clear_cache returns the same boolean as before, and is served
\* from the verification cache, which it leaves as it is.
C8_VerifyIdempotent ==
    [][ (ver_calls' = ver_calls + 1 /\ ver_out'.args \in DOMAIN ver_seen)
          => /\ ver_out'.result = ver_seen[ver_out'.args].result
             /\ verifier_cache_key(ver_out'.args.circuit_type, ver_out'.args.proof,
                                   ver_out'.args.public_inputs) \in DOMAIN verification_cache
             /\ verification_cache' = verification_cache ]_vars

\* the mock metric proof verified twice, valid both times
C8_Witness ==
    /\ ver_out.op = "verify_proof"
    /\ ver_out.args \in DOMAIN ver_seen
    /\ ver_seen[ver_out.args].count >= 2
    /\ ver_out.args.proof = MockMetricProof
    /\ ver_out.result = TRUE

\* the result the three checks of submit_metric give, in their order
ExpectedSubmitResult(nodes, call) ==
    IF call.caller \notin Range(nodes) THEN "UnauthorizedNode"
    ELSE IF ~(call.data_quality_score >= 70) THEN "DataQualityTooLow"
    ELSE IF ~(/\ call.proof.proof_value # <<>>
              /\ call.proof.public_inputs # <<>>
              /\ call.proof.public_inputs[1] = call.value) THEN "InvalidProof"
    ELSE "Ok"

\* C9: submit_metric checks the trusted node, then the quality score, then
\* the proof, and a call that returns an error leaves the metrics, proofs
\* and contributors storage unchanged.
C9_RejectedUnchanged ==
    [][ msg_out'.op = "submit_metric"
          => /\ msg_out'.result = ExpectedSubmitResult(trusted_nodes, msg_out')
             /\ msg_out'.result # "Ok"
                  => UNCHANGED <<metrics, proofs, contributors>> ]_vars

\* a submission rejected for its proof after another one was stored
C9_Witness ==
    /\ msg_out.op = "submit_metric"
    /\ msg_out.result = "InvalidProof"
    /\ metrics # EmptyMap
    /\ msg_out.caller \in DOMAIN contributors

\* the running average of the spec: the first score, then
\* (old_average * n + quality) / (n + 1)
RECURSIVE RunningAverage(_)
RunningAverage(qs) ==
    IF Len(qs) = 1 THEN qs[1]
    ELSE LET n == Len(qs) - 1
         IN  (RunningAverage(SubSeq(qs, 1, n)) * n + qs[n + 1]) \div (n + 1)

ReputationAccounting ==
    /\ DOMAIN contributors = DOMAIN accepted
    /\ \A c \in DOMAIN accepted :
         /\ contributors[c].total_contributions = Len(accepted[c])
         /\ contributors[c].reputation_score = SeqSum(accepted[c])
         /\ contributors[c].data_quality_average = RunningAverage(accepted[c])
         /\ accepted[c] = <<80>> => contributors[c].data_quality_average = 80
         /\ accepted[c] = <<80, 90>> => contributors[c].data_quality_average = 85
         /\ accepted[c] = <<80, 90, 100>>
              => /\ contributors[c].data_quality_average = 90
                 /\ contributors[c].reputation_score = 270

\* C10: after any sequence of accepted submissions a contributor's
\* total_contributions is their number, reputation_score the sum of their
\* quality scores and data_quality_average the running average; neither the
\* count nor the reputation ever decreases.
C10_Reputation ==
    [][ /\ ReputationAccounting'
        /\ \A c \in DOMAIN contributors :
             /\ c \in DOMAIN contributors'
             /\ contributors'[c].reputation_score >= contributors[c].reputation_score
             /\ contributors'[c].total_contributions >= contributors[c].total_contributions
      ]_vars

\* the scores 80, 90, 100 from one contributor
C10_Witness ==
    /\ Alice \in DOMAIN accepted
    /\ accepted[Alice] = <<80, 90, 100>>
    /\ contributors[Alice].reputation_score = 270
    /\ contributors[Alice].data_quality_average = 90
    /\ contributors[Alice].total_contributions = 3


\* C11: an accepted submission of a contributor who already has a record
\* adds exactly one to total_contributions and exactly its quality score to
\* reputation_score and leaves every other contributor's record alone, so
\* two accepted submissions from one address, in the same block or in
\* different blocks, in either order, add 2 and the sum of both scores.
C11_NoLostIncrement ==
    [][ accepted' # accepted
          => LET c == msg_out'.caller
                 q == msg_out'.data_quality_score
             IN  /\ msg_out'.op = "submit_metric"
                 /\ msg_out'.result = "Ok"
                 /\ c \in DOMAIN contributors'
                 /\ c \in DOMAIN contributors
                      => /\ contributors'[c].total_contributions
                              = contributors[c].total_contributions + 1
                         /\ contributors'[c].reputation_score
                              = contributors[c].reputation_score + q
                 /\ c \notin DOMAIN contributors
                      => /\ contributors'[c].total_contributions = 1
                         /\ contributors'[c].reputation_score = q
                 /\ \A d \in DOMAIN contributors :
                      d # c => /\ d \in DOMAIN contributors'
                               /\ contributors'[d] = contributors[d] ]_vars

\* two submissions of one contributor accepted in the same block, with a
\* submission of the other contributor stored as well
C11_Witness ==
    /\ Alice \in DOMAIN accepted
    /\ Bob \in DOMAIN accepted
    /\ accepted[Alice] = <<100, 80>>
    /\ block_timestamp = 0
    /\ contributors[Alice].total_contributions = 2
    /\ contributors[Alice].reputation_score = 180
    /\ contributors[Bob].total_contributions = 1


\* v floored to a multiple of k
FloorTo(v, k) == v - (v % k)

\* the tier table: what a viewer of a tier is shown of a metric
TierTable(m, level) ==
    [value |-> CASE level = "Maximum" -> FloorTo(m.value, 1000)
                 [] level = "High" -> FloorTo(m.value, 100)
                 [] level = "Medium" -> FloorTo(m.value, 10)
                 [] OTHER -> m.value,
     data_quality_score |-> CASE level = "Maximum" -> 0
                              [] level = "High" -> FloorTo(m.data_quality_score, 10)
                              [] OTHER -> m.data_quality_score,
     source_node |-> IF level = "Minimal" THEN m.source_node ELSE ZeroAccount,
     timestamp |-> m.timestamp,
     proof_id |-> m.proof_id,
     privacy_level |-> m.privacy_level]

\* C12: apply_privacy_filter follows the tier table with floor-to-multiple
\* rounding: Maximum floors the value to 1000, zeroes the quality and
\* anonymizes the source; High floors the value to 100 and the quality to
\* 10 and anonymizes; Medium floors the value to 10 and anonymizes; Low only
\* anonymizes; Minimal changes nothing; timestamp, proof_id and
\* privacy_level are never changed.
C12_FilterTable ==
    \A i \in 1..Len(filter_views) :
        filter_views[i].view = TierTable(FilterInput(i), filter_views[i].level)

\* the High view of value 1234 and quality 75 from Alice
C12_Witness ==
    /\ Len(filter_views) >= 1
    /\ filter_views[1].level = "High"
    /\ filter_metric.value = 1234
    /\ filter_metric.data_quality_score = 75
    /\ filter_views[1].view.value = 1200
    /\ filter_views[1].view.data_quality_score = 70
    /\ filter_views[1].view.source_node = ZeroAccount

\* the tiers from the strictest to the least strict
Strictness(level) ==
    CASE level = "Maximum" -> 1
      [] level = "High" -> 2
      [] level = "Medium" -> 3
      [] level = "Low" -> 4
      [] level = "Minimal" -> 5

\* C13: filtering at tier T a view that was filtered at a tier equal to or
\* less strict than T gives what filtering the metric at T directly gives
\* (idempotence when both tiers are the same), and the Minimal view is the
\* metric itself.
C13_MonotoneProjection ==
    /\ \A i \in 2..Len(filter_views) :
         Strictness(filter_views[i - 1].level) >= Strictness(filter_views[i].level)
           => filter_views[i].view
                = apply_privacy_filter(FilterInput(i - 1), filter_views[i].level)
    /\ \A i \in 1..Len(filter_views) :
         filter_views[i].level = "Minimal" => filter_views[i].view = FilterInput(i)

\* the Maximum view computed from the Low view of a metric that Alice sent
C13_Witness ==
    /\ Len(filter_views) = 2
    /\ filter_views[1].level = "Low"
    /\ filter_views[2].level = "Maximum"
    /\ filter_metric.value = 15999
    /\ filter_metric.source_node = Alice
    /\ filter_views[2].view.value = 15000
    /\ filter_views[2].view.data_quality_score = 0


\* the MetricValue that an accepted submission is stored as
StoredAs(sub) ==
    [value |-> sub.value, timestamp |-> sub.at, proof_id |-> sub.at,
     privacy_level |-> sub.level, data_quality_score |-> sub.data_quality_score,
     source_node |-> sub.caller]

\* C14: get_metric(metric_type) by caller c returns None if no submission
\* of that type was ever accepted, and otherwise the tier-table view of the
\* most recently accepted submission of that type at the level c set last,
\* or at High if c never set one.
C14_GetMetric ==
    msg_out.op = "get_metric" =>
        IF msg_out.metric_type \in DOMAIN last_accepted
        THEN msg_out.result = Some(TierTable(StoredAs(last_accepted[msg_out.metric_type]),
                                             LastLevel(msg_out.caller)))
        ELSE msg_out.result = None

\* Bob, who set Maximum, submitted twice for a type and then set Minimal,
\* reads his second submission in full
C14_Witness ==
    /\ msg_out.op = "get_metric"
    /\ msg_out.caller = Bob
    /\ Bob \in DOMAIN level_log
    /\ level_log[Bob] = <<"Maximum", "Minimal">>
    /\ Bob \in DOMAIN accepted
    /\ accepted[Bob] = <<75, 100>>
    /\ msg_out.metric_type \in DOMAIN last_accepted
    /\ DOMAIN last_accepted = {msg_out.metric_type}
    /\ msg_out.result # None
    /\ msg_out.result[1].value = 1234
    /\ msg_out.result[1].data_quality_score = 100
    /\ msg_out.result[1].source_node = Bob
    /\ msg_out.result[1].privacy_level = "Maximum"


\* the weighted sum in integers: floor((25c + 20t + 20l + 20s + 15a) / 100)
WeightedFloor(m) ==
    (25 * m.connectivity_score + 20 * m.throughput_score + 20 * m.latency_score
       + 20 * m.consensus_score + 15 * m.availability_score) \div 100

\* C15: for component scores in 0..100 the overall score is the weighted
\* sum with weights 25, 20, 20, 20 and 15 percent, truncated, and lies in
\* 0..100; the scores 95, 85, 88, 92, 96 give 91.
C15_WeightedFloor ==
    (/\ health_out.op = "get_network_health"
     /\ \A f \in DOMAIN health_out.response.metrics :
            health_out.response.metrics[f] \in 0..100)
    => /\ health_out.response.overall_score = WeightedFloor(health_out.response.metrics)
       /\ health_out.response.overall_score \in 0..100
       /\ health_out.response.metrics
            = [connectivity_score |-> 95, throughput_score |-> 85, latency_score |-> 88,
               consensus_score |-> 92, availability_score |-> 96]
          => health_out.response.overall_score = 91

\* a response computed while the database answered, with the scores 95, 85,
\* 88, 92, 96 and the overall score 91, returned and cached at a time when
\* a response cached at the start had expired
C15_Witness ==
    /\ health_out.op = "get_network_health"
    /\ health_out.response.metrics
         = [connectivity_score |-> 95, throughput_score |-> 85, latency_score |-> 88,
            consensus_score |-> 92, availability_score |-> 96]
    /\ health_out.response.overall_score = 91
    /\ health_calls = <<>>
    /\ health_cache # None
    /\ health_cache[1].health = health_out.response
    /\ health_cache[1].cached_at >= cache_duration
    /\ instant > health_cache[1].cached_at

\* C16: the network status follows from the overall score alone (90..100
\* Healthy, 70..89 Warning, 0..69 Critical, anything else Unknown), and the
\* response carries exactly one Critical warning when Critical, exactly one
\* Warning-level warning when Warning and none when Healthy.
C16_StatusAndWarnings ==
    status_out.op = "network_status" =>
        LET r == status_out
            levels == [i \in 1..Len(r.warnings) |-> r.warnings[i].level]
        IN  /\ r.network_status = CASE r.overall_score >= 90 /\ r.overall_score <= 100 -> "Healthy"
                                    [] r.overall_score >= 70 /\ r.overall_score <= 89 -> "Warning"
                                    [] r.overall_score >= 0 /\ r.overall_score <= 69 -> "Critical"
                                    [] OTHER -> "Unknown"
            /\ r.network_status = "Critical" => levels = <<"Critical">>
            /\ r.network_status = "Warning" => levels = <<"Warning">>
            /\ r.network_status = "Healthy" => levels = <<>>

\* a response with score exactly 90, Healthy and without a warning
C16_Witness ==
    /\ status_out.op = "network_status"
    /\ status_out.overall_score = 90
    /\ status_out.network_status = "Healthy"
    /\ status_out.warnings = <<>>


\* the default catalog as the spec lists it: id -> <<max data points, max sources>>
DefaultCatalog == (1 :> <<10, 5>>) @@ (2 :> <<50, 20>>) @@ (3 :> <<200, 100>>)

\* C17: on the default catalog select_optimal_circuit returns the
\* lowest-id circuit with both capacities (id 1 for 5 data points and 3
\* sources) and None exactly when no circuit has both.
C17_DefaultSelection ==
    (/\ select_out.op = "select_optimal_circuit"
     /\ select_out.manager = DefaultManager)
    => LET fits == { id \in DOMAIN DefaultCatalog :
                        /\ DefaultCatalog[id][1] >= select_out.data_points
                        /\ DefaultCatalog[id][2] >= select_out.sources }
       IN  /\ select_out.result = None <=> fits = {}
           /\ fits # {} =>
                /\ select_out.result[1].circuit_id \in fits
                /\ \A id \in fits : select_out.result[1].circuit_id <= id
                /\ select_out.result[1].max_data_points
                     = DefaultCatalog[select_out.result[1].circuit_id][1]
                /\ select_out.result[1].max_data_sources
                     = DefaultCatalog[select_out.result[1].circuit_id][2]
           /\ (select_out.data_points = 5 /\ select_out.sources = 3)
                => select_out.result[1].circuit_id = 1

\* 5 data points and 3 sources on the default catalog: circuit 1
C17_Witness ==
    /\ select_out.op = "select_optimal_circuit"
    /\ select_out.manager = DefaultManager
    /\ select_out.data_points = 5
    /\ select_out.sources = 3
    /\ select_out.result # None
    /\ select_out.result[1].circuit_id = 1

\* C18: whatever the order in which the circuits were registered, of
\* several capable circuits with the same estimated generation time
\* select_optimal_circuit returns the one with the smallest circuit id.
C18_SmallestIdOnTie ==
    (/\ select_out.op = "select_optimal_circuit"
     /\ select_out.result # None)
    => LET registered == Range(get_circuits_by_type(select_out.manager))
           capable == { c \in registered :
                           /\ c.max_data_points >= select_out.data_points
                           /\ c.max_data_sources >= select_out.sources }
           time(c) == estimate_complexity(c, select_out.data_points,
                                          select_out.sources).estimated_generation_time_ms
           cheapest == { c \in capable : \A d \in capable : time(c) <= time(d) }
       IN  /\ select_out.result[1] \in cheapest
           /\ \A c \in cheapest : select_out.result[1].circuit_id <= c.circuit_id


\* the three groups of rules of verify_constraints, each on its own
ShapeOK(call) ==
    /\ Len(call.private_data) <= call.circuit.max_data_points
    /\ Len(call.data_sources) <= call.circuit.max_data_sources
    /\ Len(call.data_sources) >= 2

AggregateOff(call) ==
    /\ Len(call.private_data) > 0
    /\ LET mean == SeqSum(call.private_data) \div Len(call.private_data)
           tolerance == call.public_metric \div 20
       IN  \/ mean > call.public_metric + tolerance
           \/ call.public_metric > mean + tolerance

QualityOff(call) ==
    \/ call.quality_score > 100
    \/ /\ Len(call.data_sources) > 0
       /\ call.quality_score * Len(call.data_sources)
            > (SeqSum(call.data_sources) \div Len(call.data_sources) + 10)
                * Len(call.data_sources)

\* C19: verify_constraints returns false whenever the integer mean of
\* private_data differs from public_metric by more than public_metric / 20,
\* and within that tolerance the aggregate check rejects nothing: the
\* readings 6000, 6100, 5900, 6200 pass with 6050 and fail with 6500.
C19_AggregateTolerance ==
    vc_out.op = "verify_constraints" =>
        /\ AggregateOff(vc_in) => vc_out.result = FALSE
        /\ ~AggregateOff(vc_in)
             => vc_out.result = (ShapeOK(vc_in) /\ ~QualityOff(vc_in))
        /\ (/\ vc_in.private_data = <<6000, 6100, 5900, 6200>>
            /\ ShapeOK(vc_in) /\ ~QualityOff(vc_in))
             => /\ vc_in.public_metric = 6050 => vc_out.result = TRUE
                /\ vc_in.public_metric = 6500 => vc_out.result = FALSE

\* the readings with mean 6050 accepted for 6368, the largest aggregate
\* within the tolerance
C19_Witness ==
    /\ vc_out.op = "verify_constraints"
    /\ vc_in.private_data = <<6000, 6100, 5900, 6200>>
    /\ vc_in.public_metric = 6368
    /\ vc_out.result = TRUE

\* C20: verify_constraints returns false when quality_score is above 100
\* and when it is above the mean source reliability plus 10, and rejects
\* nothing on quality otherwise: with reliabilities 90 and 85 a quality of
\* 88 passes, and 150 is rejected for its range whatever the reliabilities.
C20_QualityBound ==
    vc_out.op = "verify_constraints" =>
        /\ vc_in.quality_score > 100 => vc_out.result = FALSE
        /\ QualityOff(vc_in) => vc_out.result = FALSE
        /\ ~QualityOff(vc_in)
             => vc_out.result = (ShapeOK(vc_in) /\ ~AggregateOff(vc_in))
        /\ (/\ vc_in.data_sources = <<90, 85>>
            /\ ShapeOK(vc_in) /\ ~AggregateOff(vc_in))
             => /\ vc_in.quality_score = 88 => vc_out.result = TRUE
                /\ vc_in.quality_score = 150 => vc_out.result = FALSE

\* a quality of 150 rejected although the mean reliability 200 would allow it
C20_Witness ==
    /\ vc_out.op = "verify_constraints"
    /\ vc_in.data_sources = <<200, 200>>
    /\ vc_in.quality_score = 150
    /\ ShapeOK(vc_in)
    /\ ~AggregateOff(vc_in)
    /\ vc_out.result = FALSE

\* C21: after cleanup_expired_cache(max_age_seconds) the proof cache holds
\* exactly the entries it held before whose age, the current time minus
\* created_at, is less than max_age_seconds, and the call completes whatever
\* created_at the entries hold.
C21_CleanupExact ==
    cleanup_out.op = "cleanup_expired_cache"
      => /\ cleanup_out.completed
         /\ cleanup_out.after =
              [k \in { k \in DOMAIN cleanup_out.before :
                          cleanup_out.current_time - cleanup_out.before[k].created_at
                              < cleanup_out.max_age_seconds }
                 |-> cleanup_out.before[k]]

\* C22: in every reachable state of the contract every stored MetricValue
\* has data_quality_score <= 100 and every ContributorInfo has
\* data_quality_average <= 100, whatever u8 quality submit_metric is given.
C22_QualityInRange ==
    /\ \A t \in DOMAIN metrics : metrics[t].data_quality_score <= 100
    /\ \A c \in DOMAIN contributors : contributors[c].data_quality_average <= 100

\* C28: in every reachable state each ContributorInfo has
\* data_quality_average = reputation_score / total_contributions in integer
\* division, the floor of the mean of the quality scores accepted from the
\* contributor.
C28_AverageIsMeanFloor ==
    \A c \in DOMAIN contributors :
        /\ contributors[c].total_contributions = Len(accepted[c])
        /\ contributors[c].reputation_score = SeqSum(accepted[c])
        /\ contributors[c].data_quality_average =
             contributors[c].reputation_score \div contributors[c].total_contributions

\* the score the freshness table gives a metric stored at ts when read at t
FreshnessTier(ts, t) ==
    LET age == IF t >= ts THEN t - ts ELSE 0
    IN  CHOOSE f \in {100, 80, 60, 40, 20} :
            /\ f = 100 <=> age < 300
            /\ f = 80 <=> (300 <= age /\ age < 600)
            /\ f = 60 <=> (600 <= age /\ age < 1800)
            /\ f = 40 <=> (1800 <= age /\ age < 3600)

\* the sum of the scores of the given categories
RECURSIVE TierSum(_, _, _)
TierSum(cats, stored, t) ==
    IF cats = {} THEN 0
    ELSE LET c == CHOOSE c \in cats : TRUE
         IN  FreshnessTier(stored[c].timestamp, t) + TierSum(cats \ {c}, stored, t)

\* C23: calculate_data_freshness is the integer mean of the age-based scores
\* (100, 80, 60, 40, 20 at the ages 300, 600, 1800, 3600) of the tracked
\* categories that have a metric; categories without one are left out of
\* the mean, and the result is 0 only when no tracked category has a metric.
C23_FreshnessMean ==
    fresh_out # NoCall
      => LET present == Range(TrackedMetricTypes) \cap DOMAIN fresh_in.metrics
         IN  /\ present = {} => fresh_out.data_freshness = 0
             /\ present # {} =>
                  /\ fresh_out.data_freshness =
                       TierSum(present, fresh_in.metrics, fresh_in.current_time)
                           \div Cardinality(present)
                  /\ fresh_out.data_freshness > 0

\* three of the four tracked categories have a metric, of ages 299, 399 and
\* 399, and the mean of 100, 80 and 80 is reported as 86
C23_Witness ==
    /\ fresh_out # NoCall
    /\ DOMAIN fresh_in.metrics = {"AverageBlockTime", "TransactionVolume", "NetworkCongestion"}
    /\ fresh_in.current_time = 399
    /\ fresh_in.metrics["AverageBlockTime"].timestamp = 100
    /\ fresh_in.metrics["TransactionVolume"].timestamp = 0
    /\ fresh_in.metrics["NetworkCongestion"].timestamp = 0
    /\ fresh_out.data_freshness = 86

\* C24: estimate_complexity reports strictly positive constraint_count,
\* witness_count, estimated_generation_time_ms and
\* estimated_verification_time_ms for every data_points >= 1 and
\* sources >= 1, in particular for 10 data points and 5 sources.
C24_PositiveComplexity ==
    (/\ complexity_out # NoCall
     /\ complexity_in.data_points >= 1
     /\ complexity_in.sources >= 1)
      => /\ complexity_out.complexity.constraint_count > 0
         /\ complexity_out.complexity.witness_count > 0
         /\ complexity_out.complexity.estimated_generation_time_ms > 0
         /\ complexity_out.complexity.estimated_verification_time_ms > 0

\* C25: add_trusted_node called by the owner adds the node if it is not
\* listed and returns Ok; called by any other account it returns
\* InsufficientPermission and leaves trusted_nodes unchanged; so
\* trusted_nodes never holds a node twice, only grows, and holds only nodes
\* that the owner added.
C25_TrustedNodes ==
    [][ /\ (msg_out' # msg_out /\ msg_out'.op = "add_trusted_node") =>
             IF msg_out'.caller = Owner
             THEN /\ msg_out'.result = "Ok"
                  /\ trusted_nodes' = IF msg_out'.node \in Range(trusted_nodes)
                                      THEN trusted_nodes
                                      ELSE Append(trusted_nodes, msg_out'.node)
             ELSE /\ msg_out'.result = "InsufficientPermission"
                  /\ trusted_nodes' = trusted_nodes
        /\ \A i, j \in 1..Len(trusted_nodes') :
               trusted_nodes'[i] = trusted_nodes'[j] => i = j
        /\ Len(trusted_nodes) <= Len(trusted_nodes')
        /\ \A i \in 1..Len(trusted_nodes) : trusted_nodes'[i] = trusted_nodes[i]
        /\ \A n \in Range(trusted_nodes') \ Range(trusted_nodes) :
               /\ msg_out'.op = "add_trusted_node"
               /\ msg_out'.caller = Owner
               /\ msg_out'.node = n ]_vars

\* the owner has added both nodes and a call by another account was refused
C25_Witness ==
    /\ trusted_nodes = <<Bob, Alice>>
    /\ msg_out.op = "add_trusted_node"
    /\ msg_out.caller = Alice
    /\ msg_out.node = Bob
    /\ msg_out.result = "InsufficientPermission"

\* C26: every verify_proof call returns what the verifier of its circuit
\* type computes for the call's own proof bytes and public inputs; a hit of
\* the verification cache never returns a boolean computed for other proof
\* bytes or other public inputs.
C26_ResultOfOwnArguments ==
    ver_out.op = "verify_proof"
      => ver_out.result = dispatch_verify(ver_out.args.circuit_type, ver_out.args.proof,
                                          ver_out.args.public_inputs,
                                          ver_out.args.verification_key)

\* the fields of a submission that the claim lists
KeyFields(submission) ==
    [metric_type |-> submission.metric_type,
     private_data |-> submission.private_data,
     public_metric |-> submission.public_metric,
     quality_score |-> submission.quality_score,
     time_window_hours |-> submission.time_window_hours,
     sources |-> [i \in 1..Len(submission.data_sources) |->
                     <<submission.data_sources[i].source_id,
                       submission.data_sources[i].reliability_score>>]]

\* C27: two submissions that pass validate_submission and differ in metric
\* type, a reading, the aggregate, the quality score, the window or a
\* source's id or reliability never get the same proof-cache key, so
\* generate_metric_proof never answers one with the proof cached for the other.
C27_KeysSeparate ==
    (gen_out.op = "generate_metric_proof" /\ gen_out.result = "Ok")
      => \A s \in DOMAIN returned :
            (/\ validate_submission(s) = "Ok"
             /\ validate_submission(gen_out.submission) = "Ok"
             /\ KeyFields(s) # KeyFields(gen_out.submission))
              => /\ generate_cache_key(s) # generate_cache_key(gen_out.submission)
                 /\ gen_out.proof[1].circuit_id = calculate_circuit_id(gen_out.submission)

\* C29: for every stored metric, proofs[metric.proof_id] is the proof that
\* was passed in the submit_metric call that stored the metric, also when
\* submissions of different metric types observe the same block timestamp.
C29_ProofOfMetric ==
    \A t \in DOMAIN metrics :
        /\ metrics[t].proof_id \in DOMAIN proofs
        /\ proofs[metrics[t].proof_id] = last_accepted[t].proof

\* what a call does to the cache when it runs alone
SerialCall(cache, call) ==
    IF call.op = "register_contributor"
    THEN MapPut(cache, call.request.address, new_contributor_info(call.request, call.at))
    ELSE IF call.address \in DOMAIN cache
    THEN MapPut(cache, call.address, apply_updates(cache[call.address], call.updates))
    ELSE cache

\* the cache left by running the calls one after the other in the given order
RECURSIVE SerialRun(_, _)
SerialRun(cache, order) ==
    IF order = <<>> THEN cache
    ELSE SerialRun(SerialCall(cache, svc_calls[Head(order)]), Tail(order))

\* the orders of all calls in which a call that had returned before
\* another one started comes first
SerialOrders ==
    { order \in [1..Len(svc_calls) -> 1..Len(svc_calls)] :
        /\ \A i, j \in 1..Len(svc_calls) : order[i] = order[j] => i = j
        /\ \A i, j \in 1..Len(svc_calls) :
               order[i] \in svc_calls[order[j]].after => i < j }

\* C30: update_contributor is atomic with respect to concurrent
\* register_contributor and update_contributor calls on the same address:
\* once the calls have returned, contributor_cache is what running them in
\* some serial order leaves.
C30_UpdateAtomic ==
    (\A i \in 1..Len(svc_calls) : svc_calls[i].pc = "done")
      => \E order \in SerialOrders : contributor_cache = SerialRun(EmptyMap, order)

====
